---------------------------- MODULE Spec2Model ----------------------------
(***************************************************************************)
(* A model of the GitHub proxy/cache server (src/server.js), of the        *)
(* repository-identifier validators used in front of it (parseRepoParam   *)
(* in src/server.js, extractRepoFromUrl in src/script.js), of the plain   *)
(* pass-through proxy (src/unnamed/part_005) and of the viewer that calls *)
(* the GitHub API from the browser (fetchItems in src/unnamed/part_000).  *)
(*                                                                         *)
(* Strings are sequences of one-character strings, so that the regular     *)
(* expressions of the source are matched character by character.           *)
(***************************************************************************)
EXTENDS Integers, Sequences, FiniteSets, TLC

VARIABLES
    now,      \* Date.now(), in milliseconds
    cache,    \* server.js `cache`: key -> [data, ts]
    reqs,     \* the inbound requests: request id -> its handler's state
    vin,      \* validators: the raw input string
    vres,     \* validators: what was applied to vin, and the results
    proxy,    \* part_005: the inbound requests of the pass-through proxy
    viewerCache,  \* part_000 `cache`: key -> the list fetched
    fetches,  \* part_000: the calls of fetchItems
    env,      \* process.env of the server, as it is when the process starts
    gv,       \* script.js: the GitHubViewer object and the controls it drives
    gvCalls,  \* script.js: the calls of GitHubViewer.fetchData
    ms,       \* part_000: the multi-select viewer (loadList) and its page
    dv,       \* part_000: the direct-API viewer (handleLoad) and its page
    cv        \* part_001: the card viewer

serverVars == <<now, cache, reqs>>
pureVars == <<vin, vres>>
proxyVars == <<proxy>>
viewerVars == <<viewerCache, fetches>>
gvVars == <<gv, gvCalls>>
uiVars == <<gv, gvCalls, ms, dv, cv>>
vars == <<now, cache, reqs, vin, vres, proxy, viewerCache, fetches, env, gv, gvCalls, ms, dv, cv>>

---------------------------------------------------------------------------
(* JavaScript values *)

JsNull == [t |-> "null"]
JsUndefined == [t |-> "undefined"]
JsNaN == [t |-> "nan"]
JsStr(s) == [t |-> "str", v |-> s]
JsNum(n) == [t |-> "num", v |-> n]
JsArr(a) == [t |-> "arr", v |-> a]
JsThrow(what) == [t |-> "throw", v |-> what]

---------------------------------------------------------------------------
(* Characters and regular-expression pieces *)

Lower == {"a", "b", "c", "d", "e", "f", "g", "h", "i", "j", "k", "l", "m",
          "n", "o", "p", "q", "r", "s", "t", "u", "v", "w", "x", "y", "z"}
Upper == {"A", "B", "C", "D", "E", "F", "G", "H", "I", "J", "K", "L", "M",
          "N", "O", "P", "Q", "R", "S", "T", "U", "V", "W", "X", "Y", "Z"}
Digits == {"0", "1", "2", "3", "4", "5", "6", "7", "8", "9"}

\* the character class [A-Za-z0-9_.-]
RepoChars == Lower \cup Upper \cup Digits \cup {"_", ".", "-"}

LitHttp == <<"h", "t", "t", "p">>
LitHost == <<":", "/", "/", "g", "i", "t", "h", "u", "b", ".", "c", "o", "m", "/">>
LitGit == <<".", "g", "i", "t">>
LitSlash == <<"/">>

\* the literal lit occurs in s at position i
HasLit(s, i, lit) ==
    /\ i >= 1
    /\ i + Len(lit) - 1 <= Len(s)
    /\ \A k \in 1..Len(lit) : s[i + k - 1] = lit[k]

RECURSIVE RunIn(_, _, _)
\* [C]* from position i: how many characters a greedy class match consumes
RunIn(s, i, C) ==
    IF i > Len(s) \/ s[i] \notin C THEN 0 ELSE 1 + RunIn(s, i + 1, C)

RECURSIVE RunNotIn(_, _, _)
\* [^C]* from position i
RunNotIn(s, i, C) ==
    IF i > Len(s) \/ s[i] \in C THEN 0 ELSE 1 + RunNotIn(s, i + 1, C)

\* a regular expression that did not match
NoMatch == <<>>

---------------------------------------------------------------------------
(* src/server.js: parseRepoParam *)

\* variant: the pattern without its $ anchor
RepoParamMatchNoEnd(s) ==
    LET n1 == RunIn(s, 1, RepoChars)
        n2 == RunIn(s, n1 + 2, RepoChars)
    IN  IF n1 >= 1 /\ HasLit(s, n1 + 1, LitSlash) /\ n2 >= 1
        THEN <<SubSeq(s, 1, n1), SubSeq(s, n1 + 2, n1 + 1 + n2)>>
        ELSE NoMatch

\* variant: the pattern with an optional https://github.com/ in front
RepoParamMatchUrlToo(s) ==
    LET h == <<"h", "t", "t", "p", "s">> \o LitHost
        b == IF HasLit(s, 1, h) THEN SubSeq(s, Len(h) + 1, Len(s)) ELSE s
        n1 == RunIn(b, 1, RepoChars)
        n2 == RunIn(b, n1 + 2, RepoChars)
    IN  IF n1 >= 1 /\ HasLit(b, n1 + 1, LitSlash) /\ n2 >= 1 /\ n1 + 1 + n2 = Len(b)
        THEN <<SubSeq(b, 1, n1), SubSeq(b, n1 + 2, Len(b))>>
        ELSE NoMatch

\* /^([A-Za-z0-9_.-]+)\/([A-Za-z0-9_.-]+)$/ : the two groups, or NoMatch
RepoParamMatch(s) ==
    LET n1 == RunIn(s, 1, RepoChars)
        n2 == RunIn(s, n1 + 2, RepoChars)
    IN  IF /\ n1 >= 1
           /\ HasLit(s, n1 + 1, LitSlash)
           /\ n2 >= 1
           /\ n1 + 1 + n2 = Len(s)
        THEN <<SubSeq(s, 1, n1), SubSeq(s, n1 + 2, Len(s))>>
        ELSE NoMatch

\* !repo : undefined and the empty string are falsy, an array never is
Falsy(x) == x.t \in {"undefined", "null", "nan"} \/ (x.t = "str" /\ x.v = <<>>)
                \/ (x.t = "num" /\ x.v = 0)

parseRepoParam(repo) ==
    IF Falsy(repo) THEN JsNull
    ELSE IF repo.t # "str" THEN JsThrow("TypeError: repo.match is not a function")
    ELSE LET m == RepoParamMatch(repo.v)
         IN  IF m = NoMatch THEN JsNull
             ELSE JsStr(m[1] \o LitSlash \o m[2])

---------------------------------------------------------------------------
(* src/script.js: GitHubViewer.extractRepoFromUrl *)

\* the group ([^\/]+\/[^\/]+) from position c, followed by tail: the
\* position after the group, or 0
OwnerNameGroup(s, c) ==
    LET n1 == RunNotIn(s, c, {"/"})
        n2 == RunNotIn(s, c + n1 + 1, {"/"})
    IN  IF n1 >= 1 /\ HasLit(s, c + n1, LitSlash) /\ n2 >= 1
        THEN c + n1 + 1 + n2
        ELSE 0

\* /^https?:\/\/github\.com\/([^\/]+\/[^\/]+)\/?$/ : group 1, or NoMatch
UrlPattern(s) ==
    LET b == IF HasLit(s, 5, <<"s">>) THEN 6 ELSE 5
        c == b + Len(LitHost)
        e == OwnerNameGroup(s, c)
    IN  IF /\ HasLit(s, 1, LitHttp)
           /\ HasLit(s, b, LitHost)
           /\ e # 0
           /\ (e = Len(s) + 1 \/ (e = Len(s) /\ s[e] = "/"))
        THEN SubSeq(s, c, e - 1)
        ELSE NoMatch

\* /^([^\/]+\/[^\/]+)$/ : group 1, or NoMatch
BarePattern(s) ==
    IF OwnerNameGroup(s, 1) = Len(s) + 1 THEN s ELSE NoMatch

\* variant: the suffix is kept
StripGitNever(r) == r

\* match[1].replace(/\.git$/, '')
StripGit(r) ==
    IF HasLit(r, Len(r) - 3, LitGit) THEN SubSeq(r, 1, Len(r) - 4) ELSE r

\* repo.match(/^[a-zA-Z0-9_.-]+\/[a-zA-Z0-9_.-]+$/)
RepoFormatOk(r) ==
    LET n1 == RunIn(r, 1, RepoChars)
        n2 == RunIn(r, n1 + 2, RepoChars)
    IN  n1 >= 1 /\ HasLit(r, n1 + 1, LitSlash) /\ n2 >= 1 /\ n1 + 1 + n2 = Len(r)

\* the body of the for loop, for one pattern's match
TryPattern(m) ==
    IF m = NoMatch THEN JsNull
    ELSE IF RepoFormatOk(StripGit(m)) THEN JsStr(StripGit(m)) ELSE JsNull

extractRepoFromUrl(url) ==
    IF TryPattern(UrlPattern(url)) # JsNull THEN TryPattern(UrlPattern(url))
    ELSE TryPattern(BarePattern(url))

---------------------------------------------------------------------------
(* parseInt(string, 10) *)

DigitVal == ("0" :> 0) @@ ("1" :> 1) @@ ("2" :> 2) @@ ("3" :> 3) @@ ("4" :> 4)
            @@ ("5" :> 5) @@ ("6" :> 6) @@ ("7" :> 7) @@ ("8" :> 8) @@ ("9" :> 9)

RECURSIVE DigitsValue(_, _, _)
\* the value of the n digits of s that start at position i
DigitsValue(s, i, n) ==
    IF n = 0 THEN 0
    ELSE 10 * DigitsValue(s, i, n - 1) + DigitVal[s[i + n - 1]]

\* variant: an unreadable number defaults to 1, as `parseInt(...) || 1`
ParseIntOrOne(s) ==
    LET w == RunIn(s, 1, {" "})
        sg == IF HasLit(s, w + 1, <<"-">>) \/ HasLit(s, w + 1, <<"+">>) THEN 1 ELSE 0
        n == RunIn(s, w + sg + 1, Digits)
        mag == DigitsValue(s, w + sg + 1, n)
    IN  IF n = 0 \/ mag = 0 THEN JsNum(1)
        ELSE JsNum(IF HasLit(s, w + 1, <<"-">>) THEN 0 - mag ELSE mag)

\* leading white space is skipped, one sign is read, then the longest run of
\* digits; no digit at all gives NaN
ParseInt(s) ==
    LET w == RunIn(s, 1, {" "})
        sg == IF HasLit(s, w + 1, <<"-">>) \/ HasLit(s, w + 1, <<"+">>) THEN 1 ELSE 0
        n == RunIn(s, w + sg + 1, Digits)
        mag == DigitsValue(s, w + sg + 1, n)
    IN  IF n = 0 THEN JsNaN
        ELSE JsNum(IF HasLit(s, w + 1, <<"-">>) THEN 0 - mag ELSE mag)

RECURSIVE NatStr(_)
NatStr(n) ==
    LET d == CHOOSE c \in Digits : DigitVal[c] = n % 10
    IN  IF n < 10 THEN <<d>> ELSE NatStr(n \div 10) \o <<d>>

\* `${number}` for an integer
NumStr(n) == IF n < 0 THEN <<"-">> \o NatStr(0 - n) ELSE NatStr(n)

---------------------------------------------------------------------------
(* src/server.js: the cache *)

TTL_MS == 60 * 1000

\* cache[key], undefined when the key was never stored
CacheGet(key) == IF key \in DOMAIN cache THEN cache[key] ELSE JsUndefined

\* variant: the age compared with the TTL in seconds
isFreshSeconds(entry) == entry # JsUndefined /\ (now - entry.ts) < TTL_MS \div 1000

\* variant: an entry never expires
isFreshForever(entry) == entry # JsUndefined

\* variant: an entry of age TTL is fresh
isFreshInclusive(entry) == entry # JsUndefined /\ (now - entry.ts) <= TTL_MS

\* variant: the comparison turned round
isFreshInverted(entry) == entry # JsUndefined /\ (now - entry.ts) > TTL_MS

\* entry && (Date.now() - entry.ts) < TTL_MS
isFresh(entry) == entry # JsUndefined /\ (now - entry.ts) < TTL_MS

\* variant: an existing entry keeps its data and gets the new ts
CachePutKeepData(key, data, t) ==
    [k \in DOMAIN cache \cup {key} |->
        IF k = key
        THEN [data |-> IF key \in DOMAIN cache THEN cache[key].data ELSE data, ts |-> t]
        ELSE cache[k]]

\* variant: the cache replaced by an object with the one key
CachePutAlone(key, data, t) == [k \in {key} |-> [data |-> data, ts |-> t]]

\* variant: an existing entry keeps its ts
CachePutKeepTs(key, data, t) ==
    [k \in DOMAIN cache \cup {key} |->
        IF k = key
        THEN [data |-> data, ts |-> IF key \in DOMAIN cache THEN cache[key].ts ELSE t]
        ELSE cache[k]]

\* cache[key] = { data, ts: Date.now() }, at the time t of the assignment
CachePut(key, data, t) ==
    [k \in DOMAIN cache \cup {key} |->
        IF k = key THEN [data |-> data, ts |-> t] ELSE cache[k]]

---------------------------------------------------------------------------
(* src/server.js: the four endpoints *)

Endpoints == {"prs", "pr", "issues", "issue"}
ItemEndpoints == {"pr", "issue"}

KeyPrefix(ep) ==
    CASE ep = "prs" -> <<"p", "r", "s", ":">>
      [] ep = "pr" -> <<"p", "r", ":">>
      [] ep = "issues" -> <<"i", "s", "s", "u", "e", "s", ":">>
      [] ep = "issue" -> <<"i", "s", "s", "u", "e", ":">>

\* variant: the number follows the repo without the colon
CacheKeyNoSeparator(ep, repo, number) ==
    IF ep \in ItemEndpoints
    THEN KeyPrefix(ep) \o repo \o NumStr(number)
    ELSE KeyPrefix(ep) \o repo

\* `prs:${repo}`, `pr:${repo}:${number}`, `issues:${repo}`, `issue:${repo}:${number}`
CacheKey(ep, repo, number) ==
    IF ep \in ItemEndpoints
    THEN KeyPrefix(ep) \o repo \o <<":">> \o NumStr(number)
    ELSE KeyPrefix(ep) \o repo

InvalidRepoMsg == "Invalid repo format. Use owner/repo"
InvalidNumberMsg(ep) == IF ep = "pr" THEN "Invalid PR number" ELSE "Invalid issue number"

---------------------------------------------------------------------------
(* The upstream API, as seen by fetch() *)

\* an entry of a list, or a single issue or pull request; pull_request is
\* whether the entry carries the pull-request marker
Items == {[id |-> 1, pull_request |-> FALSE], [id |-> 2, pull_request |-> TRUE]}

MaxItems == 2

ListBodies == UNION {[1..n -> Items] : n \in 0..MaxItems}

\* parsed JSON: an array, an object; NotJson is a body res.json() rejects
JsonList(l) == [t |-> "list", v |-> l]
JsonObj(o) == [t |-> "object", v |-> o]
NotJson == [t |-> "invalid"]

\* what fetch() settles with: a response (status, the two rate-limit headers,
\* null when absent, and the body as JSON and as text), or a rejection
Response(status, remaining, reset, json, text) ==
    [kind |-> "response", status |-> status, remaining |-> remaining, reset |-> reset,
     json |-> json, text |-> text]
NetworkError ==
    [kind |-> "neterr", status |-> 0, remaining |-> JsNull, reset |-> JsNull,
     json |-> NotJson, text |-> ""]

Hdr5 == JsStr(<<"5">>)
Hdr0 == JsStr(<<"0">>)
Hdr17 == JsStr(<<"1", "7">>)

\* the bodies the upstream API answers 200 with, per endpoint
OkBodies(ep) ==
    IF ep \in ItemEndpoints THEN {JsonObj(o) : o \in Items}
    ELSE {JsonList(l) : l \in ListBodies}

\* versions of a resource, per endpoint: two items; the empty list, a list of
\* one pull request, a list of an issue and a pull request
TwoBodies(ep) ==
    IF ep \in ItemEndpoints THEN {JsonObj(o) : o \in Items}
    ELSE {JsonList(<<>>),
          JsonList(<<[id |-> 2, pull_request |-> TRUE]>>),
          JsonList(<<[id |-> 1, pull_request |-> FALSE], [id |-> 2, pull_request |-> TRUE]>>)}

\* every kind of reply
AllReplies(ep) ==
    {Response(200, Hdr5, Hdr17, b, "") : b \in OkBodies(ep)}
    \cup {Response(200, Hdr5, Hdr17, NotJson, "<html>")}
    \cup {Response(403, rem, rst, NotJson, "Forbidden") :
            rem \in {JsNull, Hdr0, Hdr5}, rst \in {JsNull, Hdr17, JsStr(<<"x">>)}}
    \cup {Response(st, Hdr5, Hdr17, NotJson, "Error") : st \in {404, 500}}
    \cup {NetworkError}

\* the replies of the two-request specification
FewReplies(ep) ==
    {Response(200, Hdr5, Hdr17, b, "") : b \in TwoBodies(ep)}
    \cup {Response(403, Hdr0, Hdr17, NotJson, "Forbidden"),
          Response(404, Hdr5, Hdr17, NotJson, "Error"),
          NetworkError}

---------------------------------------------------------------------------
(* src/server.js: ghFetch *)

\* variant: the seconds taken for milliseconds
NewDateFromSecondsUnscaled(x) ==
    IF x.t = "num" THEN [t |-> "date", ms |-> x.v]
    ELSE [t |-> "invalid-date"]

\* new Date(parseInt(reset, 10) * 1000)
NewDateFromSeconds(x) ==
    IF x.t = "num" THEN [t |-> "date", ms |-> x.v * 1000]
    ELSE [t |-> "invalid-date"]

\* the headers ghFetch gives to fetch
GhHeaders ==
    ("Accept" :> "application/vnd.github+json")
    @@ ("User-Agent" :> "ghcpd-joseph_test_repo-proxy")

Returned(data) == [ok |-> TRUE, data |-> data, status |-> JsUndefined, message |-> <<>>]
Thrown(status, message) == [ok |-> FALSE, data |-> JsUndefined, status |-> status,
                            message |-> message]

\* a template string is the sequence of its pieces
RateLimitMsg(remaining, resetDate) ==
    <<"GitHub rate limit exceeded. Remaining=", remaining, ". Reset=", resetDate>>
ApiErrorMsg(status, text) == <<"GitHub API error: ", status, " ", text>>

\* res.ok
ResOk(status) == status >= 200 /\ status <= 299

ghFetch(up) ==
    IF up.kind = "neterr" THEN Thrown(JsUndefined, <<"fetch failed">>)
    ELSE IF up.status = 403
    THEN LET remaining == up.remaining
             reset == up.reset
             resetDate == IF Falsy(reset) THEN JsNull
                          ELSE NewDateFromSeconds(ParseInt(reset.v))
         IN  Thrown(JsNum(429), RateLimitMsg(remaining, resetDate))
    ELSE IF ~ResOk(up.status)
    THEN Thrown(JsNum(up.status), ApiErrorMsg(up.status, up.text))
    ELSE IF up.json = NotJson THEN Thrown(JsUndefined, <<"Unexpected token < in JSON">>)
    ELSE Returned(up.json)

---------------------------------------------------------------------------
(* src/server.js: the route handlers *)

\* res.status(...).json({ error: ... })
ErrorBody(message) == JsonObj([error |-> message])

\* all.filter(item => !item.pull_request)
IssuesOnly(all) == SelectSeq(all, LAMBDA item : ~item.pull_request)

\* A handler from its first line to its first await or return: validation,
\* the key, the cache lookup.  step is "throw" (parseRepoParam threw, outside
\* any try), "respond" (the response is sent) or "fetch" (ghFetch is called).
HandlerStart(ep, q, p) ==
    LET repo == parseRepoParam(q)
        number == IF ep \in ItemEndpoints THEN ParseInt(p) ELSE JsNum(0)
        key == CacheKey(ep, repo.v, number.v)
    IN  IF repo.t = "throw"
        THEN [step |-> "throw", status |-> 0, body |-> JsUndefined, key |-> <<>>,
              hit |-> FALSE]
        ELSE IF Falsy(repo)
        THEN [step |-> "respond", status |-> 400, body |-> ErrorBody(InvalidRepoMsg),
              key |-> <<>>, hit |-> FALSE]
        ELSE IF ep \in ItemEndpoints /\ Falsy(number)
        THEN [step |-> "respond", status |-> 400, body |-> ErrorBody(InvalidNumberMsg(ep)),
              key |-> <<>>, hit |-> FALSE]
        ELSE IF isFresh(CacheGet(key))
        THEN [step |-> "respond", status |-> 200, body |-> CacheGet(key).data,
              key |-> key, hit |-> TRUE]
        ELSE [step |-> "fetch", status |-> 0, body |-> JsUndefined, key |-> key,
              hit |-> FALSE]

\* variant: an empty payload is answered as an error and not stored
HandlerTryEmptyIsError(ep, key, data) ==
    IF ep = "issues" /\ data.t # "list"
    THEN [status |-> 500, body |-> ErrorBody(<<"all.filter is not a function">>),
          cache |-> cache]
    ELSE LET payload == IF ep = "issues" THEN JsonList(IssuesOnly(data.v)) ELSE data
         IN  IF payload = JsonList(<<>>)
             THEN [status |-> 404, body |-> ErrorBody(<<"empty">>), cache |-> cache]
             ELSE [status |-> 200, body |-> payload,
                   cache |-> CachePut(key, payload, now)]

\* variant: the list is cached as fetched, and answered filtered
HandlerTryCacheRaw(ep, key, data) ==
    IF ep = "issues" /\ data.t # "list"
    THEN [status |-> 500, body |-> ErrorBody(<<"all.filter is not a function">>),
          cache |-> cache]
    ELSE LET payload == IF ep = "issues" THEN JsonList(IssuesOnly(data.v)) ELSE data
         IN  [status |-> 200, body |-> payload, cache |-> CachePut(key, data, now)]

\* the try block after `await ghFetch(...)` returned data
HandlerTry(ep, key, data) ==
    IF ep = "issues" /\ data.t # "list"
    THEN [status |-> 500, body |-> ErrorBody(<<"all.filter is not a function">>),
          cache |-> cache]
    ELSE LET payload == IF ep = "issues" THEN JsonList(IssuesOnly(data.v)) ELSE data
         IN  [status |-> 200, body |-> payload, cache |-> CachePut(key, payload, now)]

\* variant: the error response is stored like a payload
HandlerCatchCaching(key, e) ==
    [status |-> IF Falsy(e.status) THEN 500 ELSE e.status.v,
     body |-> ErrorBody(e.message),
     cache |-> [k \in DOMAIN cache \cup {key} |->
                  IF k = key THEN [data |-> ErrorBody(e.message), ts |-> now]
                  ELSE cache[k]]]

\* variant: every failure answered 500
HandlerCatchAlways500(key, e) ==
    [status |-> 500, body |-> ErrorBody(e.message), cache |-> cache]

\* the catch block: res.status(e.status || 500).json({ error: e.message })
HandlerCatch(key, e) ==
    [status |-> IF Falsy(e.status) THEN 500 ELSE e.status.v,
     body |-> ErrorBody(e.message),
     cache |-> cache]

\* A handler from the settling of ghFetch to its end
HandlerFinish(ep, key, res) ==
    IF res.ok THEN HandlerTry(ep, key, res.data) ELSE HandlerCatch(key, res)

---------------------------------------------------------------------------
(* src/unnamed/part_005: the pass-through proxy, /api/repos/:owner/:repo/:resource *)

\* req.url is a sequence of tokens: the separators "/" and "?", and words
\* that hold no separator
Separators == {"/", "?"}

RECURSIVE SplitUrl(_)
\* req.url.split(/[/?]/): the strings between the separators, "" between two
\* adjacent separators and at either end
SplitUrl(url) ==
    IF url = <<>> THEN <<"">>
    ELSE IF Head(url) \in Separators THEN <<"">> \o SplitUrl(Tail(url))
    ELSE LET rest == SplitUrl(Tail(url))
         IN  <<Head(url) \o Head(rest)>> \o Tail(rest)

\* an element of a destructured array: undefined past its end
PartAt(parts, i) == IF i <= Len(parts) THEN JsStr(parts[i]) ELSE JsUndefined

\* !x for a part: a word is a string of one character or more
NoPart(x) == x = JsUndefined \/ x.v = ""

\* req.url.includes('?') ? '?' + req.url.split('?')[1] : ''
SearchOf(url) ==
    LET marks == {i \in 1..Len(url) : url[i] = "?"}
        first == CHOOSE i \in marks : \A j \in marks : i <= j
        later == {j \in marks : j > first}
        stop == IF later = {} THEN Len(url) + 1
                ELSE CHOOSE j \in later : \A k \in later : j <= k
    IN  IF marks = {} THEN <<>>
        ELSE <<"?">> \o SubSeq(url, first + 1, stop - 1)

Resources == {"pulls", "issues"}

\* res.writeHead(status[, {'Content-Type': ctype}]); res.end(body)
ProxyAnswer(status, ctype, body) == [status |-> status, ctype |-> ctype, body |-> body]

PlainText(text) == [t |-> "text", v |-> text]

\* The handler from its first line to `await fetch(target, ...)` or to its
\* return: owner, repo and resource are the 4th, 5th and 6th parts of the URL
ProxyStart(url) ==
    LET parts == SplitUrl(url)
        owner == PartAt(parts, 4)
        repo == PartAt(parts, 5)
        resource == PartAt(parts, 6)
    IN  IF NoPart(owner) \/ NoPart(repo) \/ resource = JsUndefined
           \/ resource.v \notin Resources
        THEN [step |-> "respond", resource |-> "", target |-> <<>>,
              answer |-> ProxyAnswer(400, "", PlainText("Bad request"))]
        ELSE [step |-> "fetch", resource |-> resource.v,
              target |-> <<"https://api.github.com/repos/", owner.v, "/", repo.v, "/",
                           resource.v>> \o SearchOf(url),
              answer |-> ProxyAnswer(0, "", JsUndefined)]

\* The handler from the settling of fetch to its end; sampleExists is
\* fs.existsSync(samplePath), samplePath being public/sample-${resource}.json
ProxyFinish(resource, up, sampleExists) ==
    IF up.kind = "neterr" THEN ProxyAnswer(500, "", PlainText("Proxy error"))
    ELSE IF up.status = 403 /\ sampleExists
    THEN ProxyAnswer(200, "application/json",
                     [t |-> "file", v |-> <<"sample-", resource, ".json">>])
    ELSE ProxyAnswer(up.status, "application/json",
                     [t |-> "upstream", json |-> up.json, text |-> up.text])

\* the list endpoint of server.js that asks for the same upstream resource
EndpointOf(resource) == IF resource = "pulls" THEN "prs" ELSE "issues"

\* an error reply as the GitHub API words it
GitHubError(status, message) ==
    Response(status, Hdr5, Hdr17, JsonObj([message |-> message]), "")

ProxyReplies(resource) ==
    FewReplies(EndpointOf(resource))
    \cup {Response(403, JsNull, JsNull, NotJson, "Forbidden"),
          GitHubError(404, "Not Found"),
          GitHubError(500, "Server Error")}

ProxyUrls ==
    {<<"/", "api", "/", "repos", "/", "a", "/", "b", "/", "issues">>,
     <<"/", "api", "/", "repos", "/", "a", "/", "b", "/", "pulls">>,
     <<"/", "api", "/", "repos", "/", "a", "/", "b", "/", "pulls", "?", "state=all">>,
     <<"/", "api", "/", "repos", "/", "a", "/", "b", "/", "wiki">>,
     <<"/", "api", "/", "repos", "/", "a", "/", "b">>,
     <<"/", "api", "/", "repos", "/", "/", "b", "/", "issues">>,
     <<"/", "api", "/", "x", "/", "a", "/", "b", "/", "issues", "/", "1">>}

\* A request to the proxy: the handler's position (pc), its input (url), its
\* locals (resource, target), the upstream calls it made (calls), what fetch
\* settled with (up), whether the sample file was there when looked for
\* (sample), and its response (answer)
NewProxyReq ==
    [pc |-> "new", url |-> <<>>, resource |-> "", target |-> <<>>, calls |-> 0,
     up |-> [kind |-> "none"], sample |-> FALSE, answer |-> ProxyAnswer(0, "", JsUndefined)]

---------------------------------------------------------------------------
(* src/unnamed/part_000: fetchItems, the viewer that calls the GitHub API *)

ViewerTypes == {"Pull Requests", "Issues"}

\* `${owner}/${repo}/${type}`
ViewerKey(owner, repo, type) == owner \o LitSlash \o repo \o LitSlash \o <<type>>

\* the endpoint asked for, as the list endpoint of server.js that asks for
\* the same upstream resource
ViewerEndpoint(type) == IF type = "Pull Requests" THEN "prs" ELSE "issues"

\* cache.has(key), cache.get(key)
ViewerHas(key) == key \in DOMAIN viewerCache

\* variant: nothing is stored
ViewerSetNothing(key, data) == viewerCache

\* cache.set(key, data)
ViewerSet(key, data) ==
    [k \in DOMAIN viewerCache \cup {key} |-> IF k = key THEN data ELSE viewerCache[k]]

\* fetchItems from `await fetch(...)` settling to its end: the list returned
\* and stored, or the error thrown, with nothing stored
FetchItemsFinish(key, up) ==
    IF up.kind = "neterr"
    THEN [ok |-> FALSE, data |-> JsUndefined, message |-> <<"fetch failed">>,
          cache |-> viewerCache]
    ELSE IF ~ResOk(up.status)
    THEN [ok |-> FALSE, data |-> JsUndefined,
          message |-> <<"GitHub API error ", up.status>>, cache |-> viewerCache]
    ELSE IF up.json = NotJson
    THEN [ok |-> FALSE, data |-> JsUndefined,
          message |-> <<"Unexpected token < in JSON">>, cache |-> viewerCache]
    ELSE [ok |-> TRUE, data |-> up.json, message |-> <<>>,
          cache |-> ViewerSet(key, up.json)]

MaxCalls == 2

Calls == 1..MaxCalls

ViewerOwners == {<<"a">>}
ViewerRepos == {<<"b">>, <<"c">>}

\* A call of fetchItems: its position (pc), its arguments, its local key, the
\* GitHub requests it issued (calls), what fetch settled with (up), whether it
\* returned from the cache (hit), what it returned (data) or threw, and the
\* instants of the call (at) and of its end (doneAt)
NewCall ==
    [pc |-> "new", owner |-> <<>>, repo |-> <<>>, type |-> "", key |-> <<>>,
     calls |-> 0, up |-> [kind |-> "none"], hit |-> FALSE, ok |-> FALSE,
     data |-> JsUndefined, message |-> <<>>, at |-> -1, doneAt |-> -1]

---------------------------------------------------------------------------
(* src/script.js: GitHubViewer *)

\* String.prototype.trim, for the blank
RECURSIVE TrimStart(_)
TrimStart(s) == IF s # <<>> /\ Head(s) = " " THEN TrimStart(Tail(s)) ELSE s

RECURSIVE TrimEnd(_)
TrimEnd(s) ==
    IF s # <<>> /\ s[Len(s)] = " " THEN TrimEnd(SubSeq(s, 1, Len(s) - 1)) ELSE s

Trim(s) == TrimEnd(TrimStart(s))

\* the values of the options of #dataType: '' is the value fetchData and
\* enableFetchButton test with !dataType
DataTypes == {"", "prs", "issues"}

EnterUrlMsg == "Please enter a GitHub repository URL"
InvalidUrlMsg ==
    "Invalid GitHub repository URL format. Expected: https://github.com/user/repo"
ValidateFirstMsg == "Please validate repository and select data type first"

\* The viewer after its constructor, and the page as it is loaded: currentRepo
\* and currentData, the value of #dataType and whether it is disabled, whether
\* #fetchData and #itemSelect are disabled, the error popup (#errorModal shown,
\* #errorMessage), the class of #repoStatus and of #fetchStatus, the text in
\* #repoUrl, and the listener that ran last (event)
NewViewer ==
    [currentRepo |-> <<>>, currentData |-> <<>>,
     repoUrl |-> <<>>, event |-> "",
     dataType |-> "", dataTypeDisabled |-> TRUE,
     fetchDisabled |-> TRUE, itemSelectDisabled |-> TRUE,
     modal |-> FALSE, errorMessage |-> "",
     repoStatus |-> "", fetchStatus |-> ""]

showError(v, message) ==
    [v EXCEPT !.errorMessage = message,
              !.modal = TRUE,
              !.repoStatus = IF @ = "success" THEN "error" ELSE @]

closeModal(v) == [v EXCEPT !.modal = FALSE]

enableFetchButton(v) ==
    [v EXCEPT !.fetchDisabled = (v.dataType = "" \/ v.currentRepo = <<>>)]

\* variant: a rejected input clears currentRepo
validateRepositoryClearing(v, raw) ==
    LET repoUrl == Trim(raw)
        repo == extractRepoFromUrl(repoUrl)
    IN  IF repoUrl = <<>> THEN showError([v EXCEPT !.currentRepo = <<>>], EnterUrlMsg)
        ELSE IF repo = JsNull THEN showError([v EXCEPT !.currentRepo = <<>>], InvalidUrlMsg)
        ELSE enableFetchButton([v EXCEPT !.currentRepo = repo.v,
                                         !.repoStatus = "success",
                                         !.dataTypeDisabled = FALSE])

\* raw is the value of #repoUrl
validateRepository(v, raw) ==
    LET repoUrl == Trim(raw)
        repo == extractRepoFromUrl(repoUrl)
    IN  IF repoUrl = <<>> THEN showError(v, EnterUrlMsg)
        ELSE IF repo = JsNull THEN showError(v, InvalidUrlMsg)
        ELSE enableFetchButton([v EXCEPT !.currentRepo = repo.v,
                                         !.repoStatus = "success",
                                         !.dataTypeDisabled = FALSE])

\* fetchData up to its await or its early return
fetchDataStart(v) ==
    IF v.dataType = "" \/ v.currentRepo = <<>>
    THEN [step |-> "return", v |-> showError(v, ValidateFirstMsg)]
    ELSE [step |-> "fetch",
          v |-> [v EXCEPT !.fetchStatus = "loading", !.fetchDisabled = TRUE]]

\* what the server answers to GET /api/prs or /api/issues: a list, an error
\* with its JSON body, or no answer
GvReplies ==
    {Response(200, JsNull, JsNull, JsonList(l), "") :
        l \in {<<>>, <<[id |-> 1, pull_request |-> FALSE]>>}}
    \cup {Response(404, JsNull, JsNull, ErrorBody(<<"GitHub API error: 404">>), "")}
    \cup {NetworkError}

\* fetchData from the settling of fetch to its end: try, catch, finally
fetchDataFinish(v, up) ==
    LET tried ==
            IF up.kind = "response" /\ ResOk(up.status)
            THEN [v EXCEPT !.currentData = up.json.v,
                           !.itemSelectDisabled = (up.json.v = <<>>),
                           !.fetchStatus = "success"]
            ELSE [v EXCEPT !.fetchStatus = "error", !.itemSelectDisabled = TRUE]
    IN  [tried EXCEPT !.fetchDisabled = FALSE]

MaxFetchData == 2

FetchDatas == 1..MaxFetchData

\* a call of fetchData: its position, and the repo and data type it asks for
NewFetchData == [pc |-> "new", repo |-> <<>>, dataType |-> ""]

\* what the user types into #repoUrl
GvInputs ==
    {<<" ">>, <<" ", "a", "/", "b", " ">>,
     LitHttp \o <<"s">> \o LitHost \o <<"c", "/", "d">>, <<"a", "!", "/", "b">>}

---------------------------------------------------------------------------
(* src/unnamed/part_000: the multi-select viewer, loadList *)

LitHttpsHost == LitHttp \o <<"s">> \o LitHost

\* :\/\/github.com\/ at position i: the dot of the pattern is not escaped and
\* matches any character
HostAnyDot(s, i) ==
    /\ HasLit(s, i, <<":", "/", "/", "g", "i", "t", "h", "u", "b">>)
    /\ i + 9 <= Len(s)
    /\ HasLit(s, i + 10, <<"c", "o", "m", "/">>)

\* url.trim().match(/^https:\/\/github.com\/([^\/]+)\/([^\/]+)$/), then
\* `${m[1]}/${m[2]}`, or null
parseRepo(url) ==
    LET s == Trim(url)
        c == Len(LitHttpsHost) + 1
    IN  IF /\ HasLit(s, 1, LitHttp \o <<"s">>)
           /\ HostAnyDot(s, 6)
           /\ OwnerNameGroup(s, c) = Len(s) + 1
        THEN JsStr(SubSeq(s, c, Len(s)))
        ELSE JsNull

\* the values of the options of #type
MsTypes == {"Issues", "Pull Requests"}

\* `${repo}-${type}`
MsKey(repo, type) == repo \o <<"-", type>>

\* what /api/issues or /api/prs answers: a list of items, told apart by their
\* number, or an error
MsLists == {<<[number |-> 1]>>, <<[number |-> 1], [number |-> 2]>>}
MsReplies ==
    {Response(200, JsNull, JsNull, JsonList(l), "") : l \in MsLists}
    \cup {Response(404, JsNull, JsNull, NotJson, "Not Found")}

MaxLoads == 2

Loads == 1..MaxLoads

\* a call of loadList: its position and its local key
NewLoad == [pc |-> "new", key |-> <<>>]

\* the page and the module: the text of #repoUrl, the value of #type, the
\* options of #list (the value of each), listCache, whether an alert was
\* shown, and the calls of loadList
NewMs ==
    [repoUrl |-> <<>>, type |-> "Issues", list |-> <<>>, listCache |-> <<>>,
     alerted |-> FALSE, loads |-> [c \in Loads |-> NewLoad]]

\* the for loop of loadList: an option for each item is appended to #list
AppendOptions(list, items) == list \o [i \in 1..Len(items) |-> items[i].number]

\* loadList up to its await, or to its end when it does not await
loadListStart(v, c) ==
    LET repo == parseRepo(v.repoUrl)
        key == MsKey(repo.v, v.type)
    IN  IF repo = JsNull
        THEN [v EXCEPT !.alerted = TRUE, !.loads[c] = [pc |-> "done", key |-> <<>>]]
        ELSE IF key \in DOMAIN v.listCache
        THEN [v EXCEPT !.list = AppendOptions(<<>>, v.listCache[key]),
                       !.loads[c] = [pc |-> "done", key |-> key]]
        ELSE [v EXCEPT !.list = <<>>,
                       !.loads[c] = [pc |-> "fetching", key |-> key]]

\* loadList from the settling of fetchJSON to its end; when fetchJSON throws,
\* loadList throws
loadListFinish(v, c, up) ==
    IF up.kind = "response" /\ ResOk(up.status) /\ up.json # NotJson
    THEN LET key == v.loads[c].key
             items == up.json.v
         IN  [v EXCEPT !.listCache = [k \in DOMAIN v.listCache \cup {key} |->
                                         IF k = key THEN items ELSE v.listCache[k]],
                       !.list = AppendOptions(v.list, items),
                       !.loads[c].pc = "done"]
    ELSE [v EXCEPT !.loads[c].pc = "done"]

\* what the user types into #repoUrl
MsUrls ==
    {LitHttpsHost \o <<"a", "/", "b">>, LitHttpsHost \o <<"a", "/", "c">>, <<"a", "/", "b">>}

---------------------------------------------------------------------------
(* src/unnamed/part_000: the direct-API viewer, handleLoad *)

\* url.match(/^https?:\/\/github.com\/([^\/]+)\/([^\/]+)\/?$/): owner and
\* repo, or null
parseRepoUrl(url) ==
    LET b == IF HasLit(url, 5, <<"s">>) THEN 6 ELSE 5
        c == b + Len(LitHost)
        e == OwnerNameGroup(url, c)
        o == RunNotIn(url, c, {"/"})
    IN  IF /\ HasLit(url, 1, LitHttp)
           /\ HostAnyDot(url, b)
           /\ e # 0
           /\ (e = Len(url) + 1 \/ (e = Len(url) /\ url[e] = "/"))
        THEN [owner |-> SubSeq(url, c, c + o - 1), repo |-> SubSeq(url, c + o + 1, e - 1)]
        ELSE JsNull

\* renderList: the options of listSelect, the value of each (i.number || i.id)
renderList(items) == [i \in 1..Len(items) |-> items[i].id]

InvalidGitHubUrlMsg == "Invalid GitHub URL. Expected format: https://github.com/owner/repo"

MaxHandleLoads == 2

HandleLoads == 1..MaxHandleLoads

\* a call of handleLoad: its position, the key of its fetchItems, whether
\* fetchItems returned, and what
NewHandleLoad == [pc |-> "new", key |-> <<>>, ok |-> FALSE, data |-> JsUndefined]

\* the page: the text of repoInput, the value of typeSelect, the options of
\* listSelect, the message of the last alert, and the calls of handleLoad
NewDv ==
    [repoInput |-> <<>>, typeSelect |-> "Pull Requests", listSelect |-> <<>>,
     alert |-> "", loads |-> [c \in HandleLoads |-> NewHandleLoad]]

\* handleLoad after its await: renderList(items), or the catch
handleLoadRender(v, c, ok, data) ==
    IF ok /\ data.t = "list"
    THEN [v EXCEPT !.listSelect = renderList(data.v),
                   !.loads[c] = [@ EXCEPT !.pc = "done", !.ok = TRUE, !.data = data]]
    ELSE [v EXCEPT !.alert = "error",
                   !.loads[c] = [@ EXCEPT !.pc = "done", !.ok = FALSE]]

\* handleLoad up to the await of the fetch inside fetchItems, or to its end
\* when fetchItems returns from the cache
handleLoadStart(v, c) ==
    LET parsed == parseRepoUrl(Trim(v.repoInput))
        key == ViewerKey(parsed.owner, parsed.repo, v.typeSelect)
    IN  IF parsed = JsNull
        THEN [v EXCEPT !.alert = InvalidGitHubUrlMsg, !.loads[c].pc = "done"]
        ELSE IF ViewerHas(key)
        THEN handleLoadRender([v EXCEPT !.loads[c].key = key], c, TRUE, viewerCache[key])
        ELSE [v EXCEPT !.loads[c] = [@ EXCEPT !.pc = "fetching", !.key = key]]

\* what the user types into repoInput
DvUrls ==
    {LitHttpsHost \o <<"a", "/", "b">>, LitHttp \o LitHost \o <<"a", "/", "c", "/">>,
     <<"a", "/", "b">>}

---------------------------------------------------------------------------
(* src/unnamed/part_001 and src/static/app.js: the card viewer *)

\* the two copies of the card viewer
CardImpls == {"part_001", "app.js"}

\* the values of the options of #pageSize
PageSizeValues == {<<"1", "0">>, <<"2", "0">>, <<"5", "0">>}

\* the number of records of the dataset
MaxRecords == 51
DatasetSizes == {0, 1, 10, 25, MaxRecords}

\* the dataset: the record at index k of the array (k from 0) is told apart by
\* its instance_id
Dataset(n) == [i \in 1..n |-> [instance_id |-> 1000 + i - 1]]

Maximum(a, b) == IF a >= b THEN a ELSE b
Minimum(a, b) == IF a <= b THEN a ELSE b

\* Math.ceil(a / b) for a >= 0 and b > 0
Ceil(a, b) == (a + b - 1) \div b

\* an index given to slice: a negative one counts from the end, and all are
\* kept within 0 .. length
RelativeIndex(i, len) == IF i < 0 THEN Maximum(len + i, 0) ELSE Minimum(i, len)

\* records.slice(start, end): the elements at indices start .. end - 1
Slice(records, start, end) ==
    LET from == RelativeIndex(start, Len(records))
        to == RelativeIndex(end, Len(records))
    IN  IF from >= to THEN <<>> ELSE SubSeq(records, from + 1, to)

\* Math.max(1, Math.ceil(records.length / pageSize))
TotalPages(v) == Maximum(1, Ceil(Len(v.records), v.pageSize))

\* variant: the slice runs one record further
PageSliceOverlapping(records, page, pageSize) ==
    [start |-> (page - 1) * pageSize,
     recs |-> Slice(records, (page - 1) * pageSize, (page - 1) * pageSize + pageSize + 1)]

\* start, end and the slice of render
PageSlice(records, page, pageSize) ==
    [start |-> (page - 1) * pageSize,
     recs |-> Slice(records, (page - 1) * pageSize, (page - 1) * pageSize + pageSize)]

\* render: the page is clamped, the cards of the page replace those shown -
\* each with its index in the dataset (data-index in part_001) and the record
\* its click handler holds (app.js) - and the page indicator is written
render(v) ==
    LET page == IF v.page > TotalPages(v) THEN TotalPages(v) ELSE v.page
        sl == PageSlice(v.records, page, v.pageSize)
    IN  [v EXCEPT !.page = page,
                  !.cards = [i \in 1..Len(sl.recs) |->
                               [index |-> sl.start + i - 1, rec |-> sl.recs[i]]],
                  !.pageInfo = <<page, TotalPages(v)>>]

firstPage(v) == render([v EXCEPT !.page = 1])

\* variant: no lower limit
prevPageUnbounded(v) == render([v EXCEPT !.page = v.page - 1])

prevPage(v) == render([v EXCEPT !.page = Maximum(1, v.page - 1)])

nextPage(v) == render([v EXCEPT !.page = Minimum(TotalPages(v), v.page + 1)])

lastPage(v) == render([v EXCEPT !.page = TotalPages(v)])

\* parseInt(value, 10) || 20 in part_001, parseInt(value, 10) in app.js
pageSizeChange(v, value) ==
    LET n == ParseInt(value)
        size == IF v.impl = "part_001" /\ Falsy(n) THEN 20 ELSE n.v
    IN  render([v EXCEPT !.pageSize = size, !.page = 1])

\* the click on the card at position i of #cards: part_001 reads data-index
\* and looks the record up, app.js opens the record its handler holds
cardClick(v, i) ==
    LET record == IF v.impl = "part_001" THEN v.records[v.cards[i].index + 1]
                  ELSE v.cards[i].rec
    IN  [v EXCEPT !.modal = [open |-> TRUE, record |-> record]]

\* the page after the script ran, before the dataset arrived: state (records,
\* page, pageSize), the cards shown, the page indicator, the detail view, and
\* the listener that ran last with the position of the card clicked
NewCards(impl, size) ==
    [impl |-> impl, records |-> <<>>, page |-> 1, pageSize |-> size,
     cards |-> <<>>, pageInfo |-> <<1, 1>>, loaded |-> FALSE,
     modal |-> [open |-> FALSE, record |-> JsNull],
     event |-> "", clicked |-> 0]

NewCv == NewCards("part_001", 20)

\* loadData: the dataset arrives
loadData(v, n) == render([v EXCEPT !.records = Dataset(n), !.loaded = TRUE])

---------------------------------------------------------------------------
(* The pages as they are loaded *)

InitUi ==
    /\ gv = NewViewer
    /\ gvCalls = [c \in FetchDatas |-> NewFetchData]
    /\ ms = NewMs
    /\ dv = NewDv
    /\ cv = NewCv

---------------------------------------------------------------------------
(* The server as a state machine *)

MaxReqs == 2

Reqs == 1..MaxReqs

\* req.query.repo as the framework's query parser delivers it: absent, a
\* string, or an array when the parameter is repeated
AllQueries ==
    {JsUndefined,
     JsStr(<<>>),
     JsStr(<<"a", "/", "b">>),
     JsStr(<<"a", "/", "b", "/">>),
     JsStr(<<"a", "!", "/", "b">>),
     JsArr(<<"a/b", "a/b">>)}
FewQueries == {JsUndefined, JsStr(<<"a", "/", "b">>)}

\* req.params.number: a non-empty string
AllParams == {<<"1">>, <<"0">>, <<"x">>, <<"-", "1">>, <<"1", "x">>, <<"1", "2">>,
              <<"a", "b", "c">>}
FewParams == {<<"1">>, <<"x">>}

\* the instants at which the clock is read
Instants == {0, 1, TTL_MS - 1, TTL_MS, TTL_MS + 1}

\* A request: the handler's position (pc), its inputs (ep, query, and param
\* once the handler has read it), its locals (key), what the lookup saw
\* (seenAge: Date.now() - entry.ts, -1 without entry), the upstream calls it
\* made (calls) and what the call settled with (up), and its response (hit:
\* from the cache; status; body; doneAt: the time of its cache store, -1
\* without one).
NewReq ==
    [pc |-> "new", ep |-> "", query |-> JsUndefined, param |-> <<>>, key |-> <<>>,
     seenAge |-> -1, calls |-> 0, up |-> [kind |-> "none"], hit |-> FALSE,
     status |-> 0, body |-> JsUndefined, doneAt |-> -1, headers |-> <<>>]

\* process.env: GITHUB_TOKEN is set or not
NoToken == [GITHUB_TOKEN |-> JsUndefined]
WithToken == [GITHUB_TOKEN |-> JsStr(<<"t">>)]

Init ==
    /\ now = 0
    /\ cache = <<>>
    /\ reqs = [r \in Reqs |-> NewReq]
    /\ vin = <<>>
    /\ vres = [op |-> "none"]
    /\ proxy = [r \in Reqs |-> NewProxyReq]
    /\ viewerCache = <<>>
    /\ fetches = [c \in Calls |-> NewCall]
    /\ env = NoToken
    /\ InitUi

\* the clock advances
Tick(t) ==
    /\ t > now
    /\ now' = t
    /\ UNCHANGED <<cache, reqs, vin, vres, proxyVars, viewerVars, env, uiVars>>

\* A request arrives and its handler runs to its first await or return.  A
\* handler that throws outside its try block rejects its promise: the
\* framework either never answers (crash = 0) or answers 500 with its own,
\* non-JSON, error page (crash = 500).
Receive(r, ep, q, p, crash) ==
    /\ reqs[r].pc = "new"
    /\ \A o \in Reqs : o < r => reqs[o].pc # "new"
    /\ LET h == HandlerStart(ep, q, p)
           seen == CacheGet(h.key)
           base == [NewReq EXCEPT !.ep = ep, !.query = q, !.key = h.key,
                                  !.param = IF Falsy(parseRepoParam(q)) THEN <<>> ELSE p,
                                  !.seenAge = IF seen = JsUndefined THEN -1 ELSE now - seen.ts]
       IN  reqs' = [reqs EXCEPT ![r] =
             CASE h.step = "throw" ->
                    [base EXCEPT !.pc = "crashed", !.status = crash, !.param = <<>>,
                                 !.body = IF crash = 0 THEN JsUndefined ELSE [t |-> "html"]]
               [] h.step = "respond" ->
                    [base EXCEPT !.pc = "done", !.status = h.status, !.body = h.body,
                                 !.hit = h.hit]
               [] h.step = "fetch" ->
                    [base EXCEPT !.pc = "fetching", !.calls = 1, !.headers = GhHeaders]]
    /\ crash = 500 => HandlerStart(ep, q, p).step = "throw"
    /\ UNCHANGED <<now, cache, vin, vres, proxyVars, viewerVars, env, uiVars>>

\* variant: a failed upstream call is made once more
UpstreamReplyRetrying(r, up) ==
    /\ reqs[r].pc = "fetching"
    /\ LET f == HandlerFinish(reqs[r].ep, reqs[r].key, ghFetch(up))
       IN  IF f.status # 200 /\ reqs[r].calls < 2
           THEN /\ cache' = cache
                /\ reqs' = [reqs EXCEPT ![r] = [@ EXCEPT !.calls = @ + 1]]
           ELSE /\ cache' = f.cache
                /\ reqs' = [reqs EXCEPT ![r] =
                      [@ EXCEPT !.pc = "done", !.up = up, !.status = f.status,
                                !.body = f.body,
                                !.doneAt = IF f.status = 200 THEN now ELSE -1]]
    /\ UNCHANGED <<now, vin, vres, proxyVars, viewerVars, env, uiVars>>

\* fetch() settles and the handler runs to its end
UpstreamReply(r, up) ==
    /\ reqs[r].pc = "fetching"
    /\ LET f == HandlerFinish(reqs[r].ep, reqs[r].key, ghFetch(up))
       IN  /\ cache' = f.cache
           /\ reqs' = [reqs EXCEPT ![r] =
                 [@ EXCEPT !.pc = "done", !.up = up, !.status = f.status, !.body = f.body,
                           !.doneAt = IF f.status = 200 THEN now ELSE -1]]
    /\ UNCHANGED <<now, vin, vres, proxyVars, viewerVars, env, uiVars>>

\* the parameters a route delivers: the list routes have no :number
ParamsOf(ep, params) == IF ep \in ItemEndpoints THEN params ELSE {<<>>}

\* Requests that may overlap, on few inputs
Next ==
    \/ \E t \in Instants : Tick(t)
    \/ \E r \in Reqs, ep \in Endpoints, q \in FewQueries, crash \in {0, 500} :
         \E p \in ParamsOf(ep, FewParams) : Receive(r, ep, q, p, crash)
    \/ \E r \in Reqs :
         \E up \in FewReplies(reqs[r].ep) : UpstreamReply(r, up)

Spec == Init /\ [][Next]_vars

\* One request, on every kind of input and of upstream reply
NextOne ==
    \/ \E t \in Instants : Tick(t)
    \/ \E ep \in Endpoints, q \in AllQueries, crash \in {0, 500} :
         \E p \in ParamsOf(ep, AllParams) : Receive(1, ep, q, p, crash)
    \/ \E up \in AllReplies(reqs[1].ep) : UpstreamReply(1, up)

\* the process starts with or without the credential in its environment
InitOne ==
    /\ now = 0
    /\ cache = <<>>
    /\ reqs = [r \in Reqs |-> NewReq]
    /\ vin = <<>>
    /\ vres = [op |-> "none"]
    /\ proxy = [r \in Reqs |-> NewProxyReq]
    /\ viewerCache = <<>>
    /\ fetches = [c \in Calls |-> NewCall]
    /\ env \in {NoToken, WithToken}
    /\ InitUi

SpecOne == InitOne /\ [][NextOne]_vars

---------------------------------------------------------------------------
(* The pass-through proxy as a state machine *)

\* A request arrives and the handler runs to `await fetch` or to its return
ProxyReceive(r, url) ==
    /\ proxy[r].pc = "new"
    /\ \A o \in Reqs : o < r => proxy[o].pc # "new"
    /\ LET h == ProxyStart(url)
       IN  proxy' = [proxy EXCEPT ![r] =
             IF h.step = "respond"
             THEN [NewProxyReq EXCEPT !.pc = "done", !.url = url, !.answer = h.answer]
             ELSE [NewProxyReq EXCEPT !.pc = "fetching", !.url = url, !.calls = 1,
                                      !.resource = h.resource, !.target = h.target]]
    /\ UNCHANGED <<serverVars, pureVars, viewerVars, env, uiVars>>

\* fetch settles and the handler runs to its end
ProxyReply(r, up, sampleExists) ==
    /\ proxy[r].pc = "fetching"
    /\ sampleExists => (up.kind = "response" /\ up.status = 403)
    /\ proxy' = [proxy EXCEPT ![r] =
         [@ EXCEPT !.pc = "done", !.up = up, !.sample = sampleExists,
                   !.answer = ProxyFinish(proxy[r].resource, up, sampleExists)]]
    /\ UNCHANGED <<serverVars, pureVars, viewerVars, env, uiVars>>

NextProxy ==
    \/ \E r \in Reqs, url \in ProxyUrls : ProxyReceive(r, url)
    \/ \E r \in Reqs, sampleExists \in BOOLEAN :
         \E up \in ProxyReplies(proxy[r].resource) : ProxyReply(r, up, sampleExists)

SpecProxy == Init /\ [][NextProxy]_vars

---------------------------------------------------------------------------
(* The viewer's fetchItems as a state machine *)

\* fetchItems is called and runs to its return from the cache or to
\* `await fetch(endpoint, ...)`
FetchItemsCall(c, owner, repo, type) ==
    /\ fetches[c].pc = "new"
    /\ \A o \in Calls : o < c => fetches[o].pc # "new"
    /\ LET key == ViewerKey(owner, repo, type)
           base == [NewCall EXCEPT !.owner = owner, !.repo = repo, !.type = type,
                                   !.key = key, !.at = now]
       IN  fetches' = [fetches EXCEPT ![c] =
             IF ViewerHas(key)
             THEN [base EXCEPT !.pc = "done", !.hit = TRUE, !.ok = TRUE,
                               !.data = viewerCache[key], !.doneAt = now]
             ELSE [base EXCEPT !.pc = "fetching", !.calls = 1]]
    /\ UNCHANGED <<serverVars, pureVars, proxyVars, viewerCache, env, uiVars>>

\* fetch settles and fetchItems runs to its end
FetchItemsReply(c, up) ==
    /\ fetches[c].pc = "fetching"
    /\ LET f == FetchItemsFinish(fetches[c].key, up)
       IN  /\ viewerCache' = f.cache
           /\ fetches' = [fetches EXCEPT ![c] =
                 [@ EXCEPT !.pc = "done", !.up = up, !.ok = f.ok, !.data = f.data,
                           !.message = f.message, !.doneAt = now]]
    /\ UNCHANGED <<serverVars, pureVars, proxyVars, env, uiVars>>

\* the instant at which the page is used again: more than a minute later
ViewerInstants == {TTL_MS + 1}

NextViewer ==
    \/ \E t \in ViewerInstants : Tick(t)
    \/ \E c \in Calls, owner \in ViewerOwners, repo \in ViewerRepos, type \in ViewerTypes :
         FetchItemsCall(c, owner, repo, type)
    \/ \E c \in Calls :
         \E up \in FewReplies(ViewerEndpoint(fetches[c].type)) : FetchItemsReply(c, up)

SpecViewer == Init /\ [][NextViewer]_vars

---------------------------------------------------------------------------
(* The validators applied to raw strings *)

MaxLen == 3

LitHttps == LitHttp \o <<"s">> \o LitHost
LitHttpPlain == LitHttp \o LitHost

\* the middle of a raw string: a valid character, a dot, the separator, an
\* invalid character
BodyChars == {"a", ".", "/", "!"}
Bodies == UNION {[1..n -> BodyChars] : n \in 0..MaxLen}
Prefixes == {<<>>, LitHttps, LitHttpPlain, <<"f", "t", "p">> \o LitHost}
Suffixes == {<<>>, LitGit, LitSlash, LitGit \o LitSlash, LitGit \o LitGit}

RawStrings == {pre \o body \o suf : pre \in Prefixes, body \in Bodies, suf \in Suffixes}

\* https://github.com/{owner}/{name}
HttpsUrl(token) == LitHttps \o token

InitPure ==
    /\ now = 0
    /\ cache = <<>>
    /\ reqs = [r \in Reqs |-> NewReq]
    /\ vin \in {JsUndefined} \cup {JsStr(x) : x \in RawStrings}
    /\ vres = [op |-> "none"]
    /\ proxy = [r \in Reqs |-> NewProxyReq]
    /\ viewerCache = <<>>
    /\ fetches = [c \in Calls |-> NewCall]
    /\ env = NoToken
    /\ InitUi

\* the server validates req.query.repo
ApplyParseRepoParam ==
    /\ vres.op = "none"
    /\ vres' = [op |-> "parseRepoParam", out |-> parseRepoParam(vin)]
    /\ UNCHANGED <<now, cache, reqs, vin, proxyVars, viewerVars, env, uiVars>>

\* the browser validates the trimmed text of the input box
ApplyExtractRepoFromUrl ==
    /\ vres.op = "none"
    /\ vin.t = "str"
    /\ vres' = [op |-> "extractRepoFromUrl", out |-> extractRepoFromUrl(vin.v)]
    /\ UNCHANGED <<now, cache, reqs, vin, proxyVars, viewerVars, env, uiVars>>

\* one repository given to each validator as a bare token and as a URL
ApplyBothForms ==
    /\ vres.op = "none"
    /\ vin.t = "str"
    /\ vres' = [op |-> "forms",
                serverBare |-> parseRepoParam(vin),
                serverUrl |-> parseRepoParam(JsStr(HttpsUrl(vin.v))),
                clientBare |-> extractRepoFromUrl(vin.v),
                clientUrl |-> extractRepoFromUrl(HttpsUrl(vin.v))]
    /\ UNCHANGED <<now, cache, reqs, vin, proxyVars, viewerVars, env, uiVars>>

NextPure == ApplyParseRepoParam \/ ApplyExtractRepoFromUrl \/ ApplyBothForms

SpecPure == InitPure /\ [][NextPure]_vars

---------------------------------------------------------------------------
(* src/server.js: the cache keys of two requests *)

\* req.query.repo and req.params.number of the requests whose keys are compared
KeyQueries ==
    {JsStr(<<"a", "/", "b">>), JsStr(<<"a", "/", "b", "1">>), JsStr(<<"a", "/", "b", ":">>)}
KeyParams == {<<"1">>, <<"1", "1">>, <<"1", "x">>, <<"-", "1">>, <<"x">>}

\* a request: its route, req.query.repo, req.params.number
KeyInputs ==
    {[ep |-> ep, q |-> q, p |-> p] :
        ep \in Endpoints \ ItemEndpoints, q \in KeyQueries, p \in {<<>>}}
    \cup {[ep |-> ep, q |-> q, p |-> p] :
            ep \in ItemEndpoints, q \in KeyQueries, p \in KeyParams}

InitKeys ==
    /\ now = 0
    /\ cache = <<>>
    /\ reqs = [r \in Reqs |-> NewReq]
    /\ vin \in KeyInputs \X KeyInputs
    /\ vres = [op |-> "none"]
    /\ proxy = [r \in Reqs |-> NewProxyReq]
    /\ viewerCache = <<>>
    /\ fetches = [c \in Calls |-> NewCall]
    /\ env = NoToken
    /\ InitUi

\* each handler validates its inputs and builds its key
ComputeKeys ==
    /\ vres.op = "none"
    /\ vres' = [op |-> "keys",
                k1 |-> HandlerStart(vin[1].ep, vin[1].q, vin[1].p).key,
                k2 |-> HandlerStart(vin[2].ep, vin[2].q, vin[2].p).key]
    /\ UNCHANGED <<now, cache, reqs, vin, proxyVars, viewerVars, env, uiVars>>

NextKeys == ComputeKeys

SpecKeys == InitKeys /\ [][NextKeys]_vars

---------------------------------------------------------------------------
(* src/script.js: GitHubViewer as a state machine *)

\* the user types raw into #repoUrl and clicks #validateRepo or presses Enter
ValidateClick(raw) ==
    /\ gv' = [validateRepository(gv, raw) EXCEPT !.repoUrl = raw, !.event = "validate"]
    /\ UNCHANGED <<serverVars, pureVars, proxyVars, viewerVars, env, gvCalls, ms, dv, cv>>

\* the user picks another option of #dataType: the change listener runs
DataTypeChange(t) ==
    /\ ~gv.dataTypeDisabled
    /\ t # gv.dataType
    /\ gv' = [enableFetchButton([gv EXCEPT !.dataType = t]) EXCEPT !.event = "change"]
    /\ UNCHANGED <<serverVars, pureVars, proxyVars, viewerVars, env, gvCalls, ms, dv, cv>>

\* click on #fetchData, which a disabled button does not deliver
FetchClick(c) ==
    /\ ~gv.fetchDisabled
    /\ gvCalls[c].pc = "new"
    /\ \A o \in FetchDatas : o < c => gvCalls[o].pc # "new"
    /\ LET f == fetchDataStart(gv)
       IN  /\ gv' = [f.v EXCEPT !.event = "fetch"]
           /\ gvCalls' = [gvCalls EXCEPT ![c] =
                 [pc |-> IF f.step = "fetch" THEN "fetching" ELSE "done",
                  repo |-> gv.currentRepo, dataType |-> gv.dataType]]
    /\ UNCHANGED <<serverVars, pureVars, proxyVars, viewerVars, env, ms, dv, cv>>

\* fetch settles and fetchData runs to its end
FetchDataReply(c, up) ==
    /\ gvCalls[c].pc = "fetching"
    /\ gv' = [fetchDataFinish(gv, up) EXCEPT !.event = "settle"]
    /\ gvCalls' = [gvCalls EXCEPT ![c].pc = "done"]
    /\ UNCHANGED <<serverVars, pureVars, proxyVars, viewerVars, env, ms, dv, cv>>

\* click on .close, or outside the popup
CloseModal ==
    /\ gv.modal
    /\ gv' = [closeModal(gv) EXCEPT !.event = "close"]
    /\ UNCHANGED <<serverVars, pureVars, proxyVars, viewerVars, env, gvCalls, ms, dv, cv>>

NextGv ==
    \/ \E raw \in GvInputs : ValidateClick(raw)
    \/ \E t \in DataTypes : DataTypeChange(t)
    \/ \E c \in FetchDatas : FetchClick(c)
    \/ \E c \in FetchDatas, up \in GvReplies : FetchDataReply(c, up)
    \/ CloseModal

SpecGv == Init /\ [][NextGv]_vars

---------------------------------------------------------------------------
(* src/unnamed/part_000: the multi-select viewer as a state machine *)

\* the user edits #repoUrl and picks a type
MsEdit(url, type) ==
    /\ <<url, type>> # <<ms.repoUrl, ms.type>>
    /\ ms' = [ms EXCEPT !.repoUrl = url, !.type = type]
    /\ UNCHANGED <<serverVars, pureVars, proxyVars, viewerVars, env, gvVars, dv, cv>>

\* click on #fetchBtn
LoadListClick(c) ==
    /\ ms.loads[c].pc = "new"
    /\ \A o \in Loads : o < c => ms.loads[o].pc # "new"
    /\ ms' = loadListStart(ms, c)
    /\ UNCHANGED <<serverVars, pureVars, proxyVars, viewerVars, env, gvVars, dv, cv>>

\* fetchJSON settles and loadList runs to its end
LoadListReply(c, up) ==
    /\ ms.loads[c].pc = "fetching"
    /\ ms' = loadListFinish(ms, c, up)
    /\ UNCHANGED <<serverVars, pureVars, proxyVars, viewerVars, env, gvVars, dv, cv>>

NextMs ==
    \/ \E url \in MsUrls, type \in MsTypes : MsEdit(url, type)
    \/ \E c \in Loads : LoadListClick(c)
    \/ \E c \in Loads, up \in MsReplies : LoadListReply(c, up)

SpecMs == Init /\ [][NextMs]_vars

---------------------------------------------------------------------------
(* src/unnamed/part_000: the direct-API viewer as a state machine *)

\* the next call of handleLoad is call c
NextHandleLoad(c) ==
    /\ dv.loads[c].pc = "new"
    /\ \A o \in HandleLoads : o < c => dv.loads[o].pc # "new"

\* the user types url into repoInput and clicks loadBtn
LoadClick(c, url) ==
    /\ NextHandleLoad(c)
    /\ dv' = handleLoadStart([dv EXCEPT !.repoInput = url], c)
    /\ UNCHANGED <<serverVars, pureVars, proxyVars, viewerVars, env, gvVars, ms, cv>>

\* the user picks the other option of typeSelect: the change listener calls
\* handleLoad when repoInput is not blank
TypeSelectChange(c, type) ==
    /\ type # dv.typeSelect
    /\ IF Trim(dv.repoInput) = <<>>
       THEN dv' = [dv EXCEPT !.typeSelect = type]
       ELSE /\ NextHandleLoad(c)
            /\ dv' = handleLoadStart([dv EXCEPT !.typeSelect = type], c)
    /\ UNCHANGED <<serverVars, pureVars, proxyVars, viewerVars, env, gvVars, ms, cv>>

\* the fetch of fetchItems settles: fetchItems and handleLoad run to their end
HandleLoadReply(c, up) ==
    /\ dv.loads[c].pc = "fetching"
    /\ LET f == FetchItemsFinish(dv.loads[c].key, up)
       IN  /\ viewerCache' = f.cache
           /\ dv' = handleLoadRender(dv, c, f.ok, f.data)
    /\ UNCHANGED <<serverVars, pureVars, proxyVars, fetches, env, gvVars, ms, cv>>

\* the type as the option names it
TypeOfKey(key) == IF key = <<>> THEN "" ELSE key[Len(key)]

NextDv ==
    \/ \E c \in HandleLoads, url \in DvUrls : LoadClick(c, url)
    \/ \E c \in HandleLoads, type \in ViewerTypes : TypeSelectChange(c, type)
    \/ \E c \in HandleLoads :
         \E up \in FewReplies(ViewerEndpoint(TypeOfKey(dv.loads[c].key))) :
            HandleLoadReply(c, up)

SpecDv == Init /\ [][NextDv]_vars

---------------------------------------------------------------------------
(* The card viewer as a state machine *)

\* part_001 starts with pageSize 20, app.js with the value of #pageSize
InitCards ==
    /\ now = 0
    /\ cache = <<>>
    /\ reqs = [r \in Reqs |-> NewReq]
    /\ vin = JsUndefined
    /\ vres = [op |-> "none"]
    /\ proxy = [r \in Reqs |-> NewProxyReq]
    /\ viewerCache = <<>>
    /\ fetches = [c \in Calls |-> NewCall]
    /\ env = NoToken
    /\ gv = NewViewer
    /\ gvCalls = [c \in FetchDatas |-> NewFetchData]
    /\ ms = NewMs
    /\ dv = NewDv
    /\ cv \in {NewCards("part_001", 20)}
                \cup {NewCards("app.js", ParseInt(value).v) : value \in PageSizeValues}

CardsUnchanged ==
    UNCHANGED <<serverVars, pureVars, proxyVars, viewerVars, env, gvVars, ms, dv>>

LoadData(n) ==
    /\ ~cv.loaded
    /\ cv' = [loadData(cv, n) EXCEPT !.event = "load"]
    /\ CardsUnchanged

FirstClick ==
    /\ cv' = [firstPage(cv) EXCEPT !.event = "first"]
    /\ CardsUnchanged

PrevClick ==
    /\ cv' = [prevPage(cv) EXCEPT !.event = "prev"]
    /\ CardsUnchanged

NextClick ==
    /\ cv' = [nextPage(cv) EXCEPT !.event = "next"]
    /\ CardsUnchanged

LastClick ==
    /\ cv' = [lastPage(cv) EXCEPT !.event = "last"]
    /\ CardsUnchanged

PageSizeChange(value) ==
    /\ ParseInt(value) # JsNum(cv.pageSize)
    /\ cv' = [pageSizeChange(cv, value) EXCEPT !.event = "size"]
    /\ CardsUnchanged

CardClick(i) ==
    /\ i \in 1..Len(cv.cards)
    /\ cv' = [cardClick(cv, i) EXCEPT !.event = "click", !.clicked = i]
    /\ CardsUnchanged

CloseCardModal ==
    /\ cv.modal.open
    /\ cv' = [cv EXCEPT !.modal = [open |-> FALSE, record |-> JsNull],
                        !.event = "close", !.clicked = 0]
    /\ CardsUnchanged

\* the positions of the cards clicked
ClickPositions == {1, 2, 5, 10}

NextCards ==
    \/ \E n \in DatasetSizes : LoadData(n)
    \/ FirstClick
    \/ PrevClick
    \/ NextClick
    \/ LastClick
    \/ \E value \in PageSizeValues : PageSizeChange(value)
    \/ \E i \in ClickPositions : CardClick(i)
    \/ CloseCardModal

SpecCards == InitCards /\ [][NextCards]_vars

---------------------------------------------------------------------------
(* Repository identifiers, stated without the regular expressions *)

SlashPositions(s) == {i \in 1..Len(s) : s[i] = "/"}

\* s is owner/name: one "/", between two non-empty runs of [A-Za-z0-9_.-]
IsToken(s) ==
    /\ Cardinality(SlashPositions(s)) = 1
    /\ s[1] # "/"
    /\ s[Len(s)] # "/"
    /\ \A i \in 1..Len(s) : s[i] \in RepoChars \cup {"/"}

OwnerOf(s) == SubSeq(s, 1, (CHOOSE i \in SlashPositions(s) : TRUE) - 1)
NameOf(s) == SubSeq(s, (CHOOSE i \in SlashPositions(s) : TRUE) + 1, Len(s))

\* The owner/name that s denotes when s is [prefix]owner/name[.git][/], with
\* the prefix one of pres, the trailing slash only after a non-empty prefix,
\* and the name what is left once one trailing .git is removed
ShapeResults(s, pres) ==
    LET fits(c) ==
            LET pre == c[1]
                sl == c[2]
                g == c[3]
                i == c[4]
                start == Len(pre) + 1
                coreEnd == Len(s) - sl
                nameEnd == coreEnd - 4 * g
            IN  /\ HasLit(s, 1, pre)
                /\ sl = 1 => (pre # <<>> /\ HasLit(s, Len(s), LitSlash))
                /\ (g = 1) <=> HasLit(s, coreEnd - 3, LitGit)
                /\ start < i
                /\ i < nameEnd
                /\ s[i] = "/"
                /\ \A k \in start..nameEnd : k # i => s[k] \in RepoChars
    IN  {SubSeq(s, Len(c[1]) + 1, Len(s) - c[2] - 4 * c[3]) :
            c \in {d \in pres \X {0, 1} \X {0, 1} \X (1..Len(s)) : fits(d)}}

ShapeResult(s, pres) ==
    IF ShapeResults(s, pres) = {} THEN JsNull
    ELSE JsStr(CHOOSE x \in ShapeResults(s, pres) : TRUE)

---------------------------------------------------------------------------
(* Claims about the validators, under SpecPure *)

\* C7: parseRepoParam returns owner/name, made of exactly the two components,
\* for every string that is a valid owner/name, and fails (null) for every
\* other string (a number of "/" other than 1, an empty component, a
\* character outside [A-Za-z0-9_.-], the empty string) and for a missing one.
C7_ParseRepoParam ==
    vres.op = "parseRepoParam" =>
        IF vin.t = "str" /\ IsToken(vin.v)
        THEN vres.out = JsStr(OwnerOf(vin.v) \o <<"/">> \o NameOf(vin.v))
        ELSE vres.out = JsNull

C7_Witness ==
    /\ vres.op = "parseRepoParam"
    /\ vin = JsStr(<<".", "/", "a">>)
    /\ vres.out = JsStr(<<".", "/", "a">>)

C9_Original ==
    vres.op = "extractRepoFromUrl" =>
        /\ vres.out = ShapeResult(vin.v, {<<>>, LitHttps})
        /\ vres.out # JsNull => IsToken(vres.out.v)

\* C9, amended: the same with the URL scheme http:// accepted as well as
\* https://.
C9_ExtractRepoFromUrl ==
    vres.op = "extractRepoFromUrl" =>
        /\ vres.out = ShapeResult(vin.v, {<<>>, LitHttps, LitHttpPlain})
        /\ vres.out # JsNull => IsToken(vres.out.v)

C9_Witness ==
    /\ vres.op = "extractRepoFromUrl"
    /\ vin = JsStr(LitHttps \o <<"a", "/", "a">> \o LitGit \o LitSlash)
    /\ vres.out = JsStr(<<"a", "/", "a">>)

---------------------------------------------------------------------------
(* Claims about the cache, under Spec *)

\* request r arrives in this step
Arrives(r) == reqs[r].pc = "new" /\ reqs'[r].pc # "new"

\* ghFetch settles for request r in this step
Settles(r) == reqs[r].pc = "fetching" /\ reqs'[r].pc = "done"

\* Request r1 was answered from upstream with a success stored at doneAt, and
\* r2, for the same key, arrives now, at most maxAge later: r2 is served from
\* the cache and the two made at most one upstream call.
C1_Step(maxAge) ==
    \A r1, r2 \in Reqs :
        (/\ reqs[r1].pc = "done"
         /\ reqs[r1].doneAt # -1
         /\ Arrives(r2)
         /\ reqs'[r2].key = reqs[r1].key
         /\ now - reqs[r1].doneAt <= maxAge)
        => (/\ reqs'[r2].pc = "done"
            /\ reqs'[r2].hit
            /\ reqs'[r2].status = 200
            /\ reqs[r1].calls + reqs'[r2].calls <= 1)

C2_NoStaleHit ==
    [][/\ \A r \in Reqs :
            (Arrives(r) /\ reqs'[r].hit) =>
                /\ reqs'[r].key \in DOMAIN cache
                /\ now - cache[reqs'[r].key].ts <= TTL_MS
                /\ reqs'[r].seenAge = now - cache[reqs'[r].key].ts
                /\ reqs'[r].body = cache[reqs'[r].key].data
       /\ (\E r \in Reqs : Arrives(r)) => cache' = cache
       /\ DOMAIN cache \subseteq DOMAIN cache']_vars

C2_Witness ==
    \E r \in Reqs, k \in DOMAIN cache :
        /\ reqs[r].hit
        /\ reqs[r].key = k
        /\ now - cache[k].ts > TTL_MS

\* C3: a request that finds an entry older than TTL under its key makes
\* exactly one upstream call, and when that call succeeds the entry is
\* replaced by the new payload with storedAt the time of the store.
C3_StaleRefetched ==
    [][\A r \in Reqs :
          /\ (/\ Arrives(r)
              /\ reqs'[r].key \in DOMAIN cache
              /\ now - cache[reqs'[r].key].ts > TTL_MS)
             => (reqs'[r].pc = "fetching" /\ reqs'[r].calls = 1 /\ ~reqs'[r].hit)
          /\ (Settles(r) /\ reqs[r].seenAge > TTL_MS)
             => (/\ reqs'[r].calls = 1
                 /\ reqs'[r].status = 200 =>
                      cache'[reqs[r].key] = [data |-> reqs'[r].body, ts |-> now'])]_vars

C3_Witness ==
    \E r \in Reqs :
        /\ reqs[r].pc = "done"
        /\ reqs[r].seenAge > TTL_MS
        /\ reqs[r].status = 200
        /\ reqs[r].calls = 1
        /\ cache[reqs[r].key].ts = now

\* C4: a request answered with an error (validation, not found, rate limit,
\* other upstream error, network failure) leaves the cache as it was, so that
\* a request for a key whose only requests failed calls upstream.
C4_ErrorsNotCached ==
    [][\A r \in Reqs :
          /\ ((Arrives(r) \/ Settles(r)) /\ reqs'[r].status # 200) => cache' = cache
          /\ (/\ Arrives(r)
              /\ reqs'[r].key # <<>>
              /\ reqs'[r].key \notin DOMAIN cache)
             => (reqs'[r].pc = "fetching" /\ reqs'[r].calls = 1)]_vars

C4_Witness ==
    \E r1, r2 \in Reqs :
        /\ reqs[r1].pc = "done"
        /\ reqs[r1].calls = 1
        /\ reqs[r1].status = 404
        /\ reqs[r2].pc = "fetching"
        /\ reqs[r2].key = reqs[r1].key
        /\ reqs[r2].seenAge = -1

---------------------------------------------------------------------------
(* Claims about one request, under SpecOne *)

\* request r got the upstream reply 403 with this x-ratelimit-remaining
Forbidden(r) ==
    /\ reqs[r].pc = "done"
    /\ reqs[r].up.kind = "response"
    /\ reqs[r].up.status = 403

\* C5 as stated: an upstream 403 with x-ratelimit-remaining 0 is answered 429
\* with a JSON error body that has a reset field.
C5_Original ==
    \A r \in Reqs :
        (Forbidden(r) /\ reqs[r].up.remaining = Hdr0) =>
            /\ reqs[r].status = 429
            /\ reqs[r].body.t = "object"
            /\ "reset" \in DOMAIN reqs[r].body.v

\* the Date that x-ratelimit-reset denotes: epoch seconds
ResetTime(header) ==
    CASE header = JsNull -> JsNull
      [] header = Hdr17 -> [t |-> "date", ms |-> 17000]
      [] OTHER -> [t |-> "invalid-date"]

\* C5, amended: an upstream 403 with x-ratelimit-remaining 0 is answered 429
\* with the JSON body {error: message}, which has no reset field; the reset
\* time parsed from x-ratelimit-reset (null when absent) is part of the
\* message text.
C5_ResetInMessage ==
    \A r \in Reqs :
        (Forbidden(r) /\ reqs[r].up.remaining = Hdr0) =>
            /\ reqs[r].status = 429
            /\ reqs[r].body.t = "object"
            /\ DOMAIN reqs[r].body.v = {"error"}
            /\ reqs[r].body.v.error =
                 <<"GitHub rate limit exceeded. Remaining=", Hdr0, ". Reset=",
                   ResetTime(reqs[r].up.reset)>>

C5_Witness ==
    \E r \in Reqs :
        /\ Forbidden(r)
        /\ reqs[r].up.remaining = Hdr0
        /\ reqs[r].up.reset = Hdr17
        /\ reqs[r].status = 429

\* C6: an upstream 403 whose x-ratelimit-remaining is nonzero or absent is
\* answered with the upstream status 403, never 429.
C6_ForbiddenPassedThrough ==
    \A r \in Reqs :
        (Forbidden(r) /\ reqs[r].up.remaining # Hdr0) => reqs[r].status = 403

\* C10: a request whose repo identifier is missing or malformed is answered
\* 400 with a JSON error body, without cache lookup or upstream call.
C10_RejectedWith400 ==
    \A r \in Reqs :
        (/\ reqs[r].pc # "new"
         /\ ~(reqs[r].query.t = "str" /\ IsToken(reqs[r].query.v)))
        => (/\ reqs[r].pc = "done"
            /\ reqs[r].status = 400
            /\ reqs[r].body.t = "object"
            /\ "error" \in DOMAIN reqs[r].body.v
            /\ reqs[r].calls = 0
            /\ ~reqs[r].hit)

\* the string has no decimal digit
NoDigit(p) == \A i \in 1..Len(p) : p[i] \notin Digits

\* request r went to an item endpoint with a valid repo and this item number
ItemRequest(r) ==
    /\ reqs[r].pc # "new"
    /\ reqs[r].ep \in ItemEndpoints
    /\ reqs[r].query.t = "str"
    /\ IsToken(reqs[r].query.v)

---------------------------------------------------------------------------
(* Claims about issue lists *)

\* the entries of a list that carry no pull-request marker, in the list's order
WithoutPulls(list) == SelectSeq(list, LAMBDA item : ~item.pull_request)

\* the list has no entry with a pull-request marker
NoPulls(list) == \A i \in 1..Len(list) : ~list[i].pull_request

\* C12: an issues list - the body of GET /api/issues taken from upstream, the
\* payload cached for it, the list the viewer's fetchItems returns and keeps
\* for the type Issues - holds exactly the entries of the upstream list that
\* carry no pull-request marker, in upstream order.
C12_IssuesOnly ==
    /\ \A r \in Reqs :
         (reqs[r].pc = "done" /\ reqs[r].ep = "issues" /\ reqs[r].status = 200) =>
            /\ reqs[r].body.t = "list"
            /\ NoPulls(reqs[r].body.v)
            /\ reqs[r].calls = 1 => reqs[r].body.v = WithoutPulls(reqs[r].up.json.v)
    /\ \A k \in DOMAIN cache :
         HasLit(k, 1, <<"i", "s", "s", "u", "e", "s", ":">>) => NoPulls(cache[k].data.v)
    /\ \A c \in Calls :
         (fetches[c].pc = "done" /\ fetches[c].type = "Issues" /\ fetches[c].ok) =>
            /\ NoPulls(fetches[c].data.v)
            /\ fetches[c].calls = 1 => fetches[c].data.v = WithoutPulls(fetches[c].up.json.v)
            /\ NoPulls(viewerCache[fetches[c].key].v)

---------------------------------------------------------------------------
(* Claims about the handlers' paths, under Spec *)

\* request r arrives in this step and finds an entry younger than TTL under
\* its key
ArrivesOnFresh(r) ==
    /\ Arrives(r)
    /\ reqs'[r].key \in DOMAIN cache
    /\ now - cache[reqs'[r].key].ts < TTL_MS

\* C13: a request that finds a fresh entry under its key is answered at once
\* with status 200 and the entry's payload, makes no upstream call and leaves
\* the cache as it is.
C13_HitServedFromCache ==
    [][\A r \in Reqs :
          ArrivesOnFresh(r) =>
             /\ reqs'[r].pc = "done"
             /\ reqs'[r].hit
             /\ reqs'[r].status = 200
             /\ reqs'[r].body = cache[reqs'[r].key].data
             /\ reqs'[r].calls = 0
             /\ cache' = cache]_vars

C13_Witness ==
    \E r \in Reqs :
        /\ reqs[r].pc = "done"
        /\ reqs[r].hit
        /\ reqs[r].seenAge = 1
        /\ reqs[r].status = 200
        /\ reqs[r].calls = 0
        /\ reqs[r].body = cache[reqs[r].key].data

\* the upstream call of request r settles in this step with a 2xx response
\* that carries well-formed JSON
SettlesWithSuccess(r) ==
    /\ Settles(r)
    /\ reqs'[r].up.kind = "response"
    /\ reqs'[r].up.status \in 200..299
    /\ reqs'[r].up.json # NotJson

\* C14: when the upstream call of a request that missed the cache succeeds,
\* the request is answered 200 and the entry under its key becomes the body
\* of that answer with storedAt the current time; the body is the upstream
\* payload (for the issues list, a list taken from it) and no other entry
\* changes.
C14_SuccessStoredAndSent ==
    [][\A r \in Reqs :
          SettlesWithSuccess(r) =>
             /\ ~reqs[r].hit
             /\ reqs'[r].status = 200
             /\ reqs[r].key \in DOMAIN cache'
             /\ cache'[reqs[r].key] = [data |-> reqs'[r].body, ts |-> now]
             /\ reqs[r].ep # "issues" => reqs'[r].body = reqs'[r].up.json
             /\ reqs[r].ep = "issues" => reqs'[r].body.t = "list"
             /\ \A k \in DOMAIN cache : k # reqs[r].key => cache'[k] = cache[k]]_vars

C14_Witness ==
    \E r \in Reqs :
        /\ reqs[r].pc = "done"
        /\ reqs[r].ep = "issues"
        /\ reqs[r].calls = 1
        /\ reqs[r].status = 200
        /\ reqs[r].up.json.v # reqs[r].body.v
        /\ cache[reqs[r].key] = [data |-> reqs[r].body, ts |-> reqs[r].doneAt]

\* requests r1 and r2 are the same GET: endpoint, repo and item number
SameGet(r1, r2) ==
    /\ reqs'[r2].ep = reqs[r1].ep
    /\ reqs'[r2].query = reqs[r1].query
    /\ reqs'[r2].param = reqs[r1].param

\* C15: of the same GET issued twice in immediate succession - the first was
\* answered 200 from upstream, what it stored is the entry in the cache, and
\* the second arrives less than TTL later - the second is answered 200 with
\* the body of the first, without upstream call, so that its body does not
\* depend on what upstream would answer then.
C15_SameBodyTwice ==
    [][\A r1, r2 \in Reqs :
          (/\ reqs[r1].pc = "done"
           /\ reqs[r1].status = 200
           /\ reqs[r1].calls = 1
           /\ Arrives(r2)
           /\ SameGet(r1, r2)
           /\ cache[reqs[r1].key] = [data |-> reqs[r1].body, ts |-> reqs[r1].doneAt]
           /\ now - reqs[r1].doneAt < TTL_MS)
          => (/\ reqs'[r2].pc = "done"
              /\ reqs'[r2].status = 200
              /\ reqs'[r2].body = reqs[r1].body
              /\ reqs'[r2].calls = 0)]_vars

C15_Witness ==
    \E r1, r2 \in Reqs :
        /\ r1 # r2
        /\ reqs[r1].status = 200
        /\ reqs[r1].calls = 1
        /\ reqs[r2].pc = "done"
        /\ reqs[r2].ep = reqs[r1].ep
        /\ reqs[r2].query = reqs[r1].query
        /\ reqs[r2].param = reqs[r1].param
        /\ reqs[r2].calls = 0
        /\ reqs[r2].seenAge = 0
        /\ reqs[r2].body = reqs[r1].body
        /\ reqs[r1].body = JsonList(<<[id |-> 1, pull_request |-> FALSE]>>)

---------------------------------------------------------------------------
(* Claims about upstream failures, under SpecOne *)

\* request r got this status from upstream
UpstreamStatus(r, status) ==
    /\ reqs[r].pc = "done"
    /\ reqs[r].up.kind = "response"
    /\ reqs[r].up.status = status

\* the body is a JSON object with the one field error
IsErrorBody(body) ==
    /\ body.t = "object"
    /\ DOMAIN body.v = {"error"}

\* C16: an upstream 404 is answered with status 404 and a JSON error body,
\* by each of the four endpoints.
C16_NotFoundIs404 ==
    \A r \in Reqs :
        UpstreamStatus(r, 404) =>
            /\ reqs[r].status = 404
            /\ IsErrorBody(reqs[r].body)
            /\ reqs[r].body.v.error[1] = "GitHub API error: "
            /\ reqs[r].body.v.error[2] = 404

C16_Witness ==
    \E r \in Reqs :
        /\ reqs[r].ep = "issue"
        /\ UpstreamStatus(r, 404)
        /\ reqs[r].status = 404
        /\ IsErrorBody(reqs[r].body)

\* C17: an upstream answer that is not 2xx, other than 404 and the
\* rate-limited 403 (x-ratelimit-remaining 0), is answered with the upstream
\* status; an upstream failure without status (network error) is answered
\* 500; the body is a JSON error message in both cases.
C17_OtherErrorsKeepStatus ==
    \A r \in Reqs :
        /\ (/\ reqs[r].pc = "done"
            /\ reqs[r].up.kind = "response"
            /\ reqs[r].up.status \notin 200..299
            /\ reqs[r].up.status # 404
            /\ ~(reqs[r].up.status = 403 /\ reqs[r].up.remaining = Hdr0))
           => (reqs[r].status = reqs[r].up.status /\ IsErrorBody(reqs[r].body))
        /\ (reqs[r].pc = "done" /\ reqs[r].up.kind = "neterr")
           => (reqs[r].status = 500 /\ IsErrorBody(reqs[r].body))

---------------------------------------------------------------------------
(* Claims about the number of upstream calls, under Spec *)

\* C20: a request makes at most one upstream call: the call is made when the
\* request arrives and misses the cache, and whatever the call settles with
\* (payload, not found, rate limit, network error) the request is answered
\* then, without another call.
C20_AtMostOneCall ==
    [][\A r \in Reqs :
          /\ reqs'[r].calls <= 1
          /\ reqs[r].pc # "new" => reqs'[r].calls = reqs[r].calls
          /\ (reqs[r].pc = "fetching" /\ reqs'[r] # reqs[r]) => reqs'[r].pc = "done"]_vars

C20_Witness ==
    \E r \in Reqs :
        /\ reqs[r].pc = "done"
        /\ reqs[r].status = 429
        /\ reqs[r].calls = 1

---------------------------------------------------------------------------
(* Claims about the proxy layer's error responses, under SpecProxy *)

\* the answer of the pass-through proxy is sent as JSON and is an object with
\* an error field
IsJsonError(answer) ==
    /\ answer.ctype = "application/json"
    /\ answer.body.t = "upstream"
    /\ answer.body.json.t = "object"
    /\ "error" \in DOMAIN answer.body.json.v

\* C18: every error response of the proxy layer (status 400 and above, of
\* the caching server and of the pass-through proxy) is a JSON object with
\* an error field that holds a message.
C18_ErrorsAreJson ==
    /\ \A r \in Reqs :
         (reqs[r].pc \in {"done", "crashed"} /\ reqs[r].status >= 400) =>
            IsErrorBody(reqs[r].body)
    /\ \A r \in Reqs :
         (proxy[r].pc = "done" /\ proxy[r].answer.status >= 400) =>
            IsJsonError(proxy[r].answer)

\* the upstream call of this request was rate-limited: 403 with
\* x-ratelimit-remaining 0
RateLimited(req) ==
    /\ req.pc = "done"
    /\ req.up.kind = "response"
    /\ req.up.status = 403
    /\ req.up.remaining = Hdr0

\* C19: a request whose upstream call was rate-limited is answered with an
\* error status, never with 200 and a success body.
C19_RateLimitSurfaced ==
    /\ \A r \in Reqs : RateLimited(reqs[r]) => reqs[r].status >= 400
    /\ \A r \in Reqs : RateLimited(proxy[r]) => proxy[r].answer.status >= 400

---------------------------------------------------------------------------
(* Claims about a request's course, under SpecOne *)

\* C21: the upstream call is bounded by a timeout of a few seconds, so that
\* no call is still in flight after the clock has advanced by a whole TTL
\* (60 seconds) since it was seen in flight: the request has been answered
\* (with an error, when upstream did not answer).
C21_CallTimesOut ==
    [][\A r \in Reqs :
          (reqs[r].pc = "fetching" /\ now' >= now + TTL_MS) => reqs'[r].pc = "done"]_vars

\* C22: a request is received, validated and rejected, or looked up and
\* answered from the cache, or fetched and answered with the outcome; a
\* request whose handler is waiting for nothing has reached a terminal state
\* and exactly one response was sent for it: 400 for a rejected one, 200 for
\* a hit, the status of the outcome for a fetched one.
C22_OneResponse ==
    \A r \in Reqs :
        /\ reqs[r].pc \in {"new", "fetching", "done"}
        /\ reqs[r].pc = "fetching" => (reqs[r].status = 0 /\ reqs[r].calls = 1)
        /\ reqs[r].pc = "done" =>
             /\ reqs[r].status # 0
             /\ reqs[r].body # JsUndefined
             /\ reqs[r].calls = 0 => (reqs[r].status = 400 \/ reqs[r].hit)
             /\ reqs[r].calls = 1 => reqs[r].up.kind # "none"

\* the string is a positive integer in decimal digits
PositiveInteger(p) ==
    /\ p # <<>>
    /\ \A i \in 1..Len(p) : p[i] \in Digits
    /\ \E i \in 1..Len(p) : p[i] # "0"

\* C25: a request to an item endpoint with a valid repo and an item number
\* that is not a positive integer (zero, negative, digits followed by other
\* characters) is answered 400 without cache lookup result and without
\* upstream call.
C25_PositiveIntegersOnly ==
    \A r \in Reqs :
        (ItemRequest(r) /\ ~PositiveInteger(reqs[r].param)) =>
            /\ reqs[r].pc = "done"
            /\ reqs[r].status = 400
            /\ reqs[r].calls = 0
            /\ ~reqs[r].hit

\* C24: when GITHUB_TOKEN is set in the environment of the process, every
\* upstream call carries it in an Authorization header, as a bearer or token
\* credential; when it is not set, the calls are made without that header.
C24_TokenForwarded ==
    \A r \in Reqs :
        reqs[r].calls = 1 =>
            IF env.GITHUB_TOKEN = JsUndefined
            THEN "Authorization" \notin DOMAIN reqs[r].headers
            ELSE /\ "Authorization" \in DOMAIN reqs[r].headers
                 /\ reqs[r].headers["Authorization"]
                      \in {<<"Bearer ", env.GITHUB_TOKEN.v>>, <<"token ", env.GITHUB_TOKEN.v>>}

---------------------------------------------------------------------------
(* Claims about the cache under overlapping requests, under Spec *)

\* C23: a write replaces the whole entry: after a request stored its
\* response, over the entry of an overlapping request or not, the entry is
\* the payload and the time of that one response, and every entry of the
\* cache is the (payload, storedAt) pair of one response.
C23_LastWriteWins ==
    [][/\ \A r \in Reqs :
            (Settles(r) /\ reqs'[r].status = 200) =>
                cache'[reqs[r].key] = [data |-> reqs'[r].body, ts |-> now]
       /\ \A k \in DOMAIN cache' :
            \E r \in Reqs :
                /\ reqs'[r].key = k
                /\ reqs'[r].calls = 1
                /\ reqs'[r].status = 200
                /\ cache'[k] = [data |-> reqs'[r].body, ts |-> reqs'[r].doneAt]]_vars

C23_Witness ==
    \E r1, r2 \in Reqs :
        /\ reqs[r1].key = reqs[r2].key
        /\ reqs[r1].seenAge = -1
        /\ reqs[r2].seenAge = -1
        /\ reqs[r1].status = 200
        /\ reqs[r2].status = 200
        /\ reqs[r1].body # reqs[r2].body
        /\ reqs[r1].doneAt < reqs[r2].doneAt
        /\ cache[reqs[r1].key] = [data |-> reqs[r2].body, ts |-> reqs[r2].doneAt]

\* request r arrives in this step and finds, under its key, an entry of this
\* age
ArrivesAtAge(r, age) ==
    /\ Arrives(r)
    /\ reqs'[r].key \in DOMAIN cache
    /\ now - cache[reqs'[r].key].ts = age

C28_KeysOnlyGrow ==
    [][\A k \in DOMAIN cache :
          /\ k \in DOMAIN cache'
          /\ cache'[k] # cache[k] =>
                \E r \in Reqs :
                    /\ Settles(r)
                    /\ reqs[r].key = k
                    /\ reqs'[r].status = 200]_vars

C28_Witness ==
    \E r1, r2 \in Reqs :
        /\ reqs[r1].key \in DOMAIN cache
        /\ reqs[r1].key # reqs[r2].key
        /\ reqs[r2].key \in DOMAIN cache
        /\ now - cache[reqs[r1].key].ts > TTL_MS
        /\ cache[reqs[r2].key].ts = now

\* the upstream payload is a list with nothing to show: no item at all, or,
\* for the issues list, pull requests only
NothingToShow(ep, json) ==
    /\ json.t = "list"
    /\ \A i \in 1..Len(json.v) : ep = "issues" /\ json.v[i].pull_request

\* C29: an upstream list that is empty, or an issues list of pull requests
\* only, is answered 200 with the empty array, which is stored; a later
\* request that finds the stored empty array younger than TTL is answered
\* 200 with the empty array without upstream call.
C29_EmptyListIsSuccess ==
    [][\A r \in Reqs :
          /\ (SettlesWithSuccess(r) /\ NothingToShow(reqs[r].ep, reqs'[r].up.json)) =>
                /\ reqs'[r].status = 200
                /\ reqs'[r].body = JsonList(<<>>)
                /\ cache'[reqs[r].key] = [data |-> JsonList(<<>>), ts |-> now]
          /\ (ArrivesOnFresh(r) /\ cache[reqs'[r].key].data = JsonList(<<>>)) =>
                /\ reqs'[r].pc = "done"
                /\ reqs'[r].status = 200
                /\ reqs'[r].body = JsonList(<<>>)
                /\ reqs'[r].calls = 0]_vars

C29_Witness ==
    \E r1, r2 \in Reqs :
        /\ reqs[r1].ep = "issues"
        /\ reqs[r1].calls = 1
        /\ reqs[r1].status = 200
        /\ reqs[r1].up.json = JsonList(<<[id |-> 2, pull_request |-> TRUE]>>)
        /\ reqs[r1].body = JsonList(<<>>)
        /\ reqs[r2].key = reqs[r1].key
        /\ reqs[r2].pc = "done"
        /\ reqs[r2].hit
        /\ reqs[r2].calls = 0
        /\ reqs[r2].status = 200
        /\ reqs[r2].body = JsonList(<<>>)

\* the requests whose upstream call for this key is in flight
InFlight(k) == {r \in Reqs : reqs[r].pc = "fetching" /\ reqs[r].key = k}

\* C30 as stated: at most one upstream call for a key is in flight at any
\* time.
C30_Original ==
    \A r \in Reqs : Cardinality(InFlight(reqs[r].key)) <= 1

\* C30, amended: every request that arrives while the cache holds no fresh
\* entry for its key makes its own upstream call, also while a call for that
\* key is in flight: the calls in flight for a key are as many as the
\* unanswered requests for it, one each.
C30_OneCallPerRequest ==
    [][\A r \in Reqs :
          (/\ Arrives(r)
           /\ reqs'[r].key # <<>>
           /\ \/ reqs'[r].key \notin DOMAIN cache
              \/ now - cache[reqs'[r].key].ts >= TTL_MS)
          => (/\ reqs'[r].pc = "fetching"
              /\ reqs'[r].calls = 1
              /\ {q \in Reqs : reqs'[q].pc = "fetching" /\ reqs'[q].key = reqs'[r].key}
                    = InFlight(reqs'[r].key) \cup {r})]_vars

C30_Witness ==
    \E r1, r2 \in Reqs :
        /\ r1 # r2
        /\ reqs[r1].key # <<>>
        /\ {r1, r2} \subseteq InFlight(reqs[r1].key)

---------------------------------------------------------------------------
(* Claims about the cache keys, under SpecKeys *)

\* what a request asks for: the endpoint, the validated repo and, for an item,
\* the number
ResourceOf(in) ==
    <<in.ep, parseRepoParam(in.q), IF in.ep \in ItemEndpoints THEN ParseInt(in.p) ELSE JsNum(0)>>

\* C27: two requests that pass validation and differ in endpoint, in repo or
\* in item number have different cache keys: equal keys are keys of the same
\* resource.
C27_KeysInjective ==
    (vres.op = "keys" /\ vres.k1 # <<>> /\ vres.k2 # <<>>) =>
        (vres.k1 = vres.k2 <=> ResourceOf(vin[1]) = ResourceOf(vin[2]))

C27_Witness ==
    /\ vres.op = "keys"
    /\ vin[1] = [ep |-> "pr", q |-> JsStr(<<"a", "/", "b">>), p |-> <<"1", "1">>]
    /\ vin[2] = [ep |-> "pr", q |-> JsStr(<<"a", "/", "b", "1">>), p |-> <<"1">>]
    /\ vres.k1 = <<"p", "r", ":", "a", "/", "b", ":", "1", "1">>
    /\ vres.k2 = <<"p", "r", ":", "a", "/", "b", "1", ":", "1">>

---------------------------------------------------------------------------
(* Claims about the viewer's fetchItems, under SpecViewer *)

\* fetchItems is called as call c in this step
Called(c) == fetches[c].pc = "new" /\ fetches'[c].pc # "new"

\* call c ended before this step with a list for this key
Succeeded(c, key) == fetches[c].pc = "done" /\ fetches[c].ok /\ fetches[c].key = key

\* C31: a call of fetchItems made after a call for the same owner, repo and
\* type has succeeded returns at once, without GitHub request and whatever
\* the time since, the list stored under the key, which is the list GitHub
\* sent to a call for that key; a call that fails leaves the cache as it is.
C31_CachedForever ==
    [][\A c \in Calls :
          /\ (Called(c) /\ \E c1 \in Calls : Succeeded(c1, fetches'[c].key)) =>
                /\ fetches'[c].pc = "done"
                /\ fetches'[c].ok
                /\ fetches'[c].hit
                /\ fetches'[c].calls = 0
                /\ fetches'[c].data = viewerCache[fetches'[c].key]
                /\ \E c2 \in Calls :
                      /\ Succeeded(c2, fetches'[c].key)
                      /\ fetches[c2].calls = 1
                      /\ fetches[c2].data = fetches'[c].data
                /\ viewerCache' = viewerCache
          /\ (fetches[c].pc = "fetching" /\ fetches'[c].pc = "done" /\ ~fetches'[c].ok) =>
                viewerCache' = viewerCache]_vars

C31_Witness ==
    \E c1, c2 \in Calls :
        /\ fetches[c1].ok
        /\ fetches[c1].calls = 1
        /\ fetches[c1].doneAt = 0
        /\ fetches[c2].key = fetches[c1].key
        /\ fetches[c2].pc = "done"
        /\ fetches[c2].at = TTL_MS + 1
        /\ fetches[c2].hit
        /\ fetches[c2].calls = 0
        /\ fetches[c2].data = fetches[c1].data

---------------------------------------------------------------------------
(* Claims about GitHubViewer, under SpecGv *)

\* the calls of fetchData that await their response
GvInFlight == {c \in FetchDatas : gvCalls[c].pc = "fetching"}

\* C32: while a call of fetchData awaits its response the fetch button is
\* disabled, so that at most one call is in flight.
C32_DisabledWhileInFlight ==
    /\ GvInFlight # {} => gv.fetchDisabled
    /\ Cardinality(GvInFlight) <= 1

\* C33: the fetch button is enabled only if a data type is selected and
\* currentRepo is non-empty.
C33_EnabledOnlyWhenReady ==
    ~gv.fetchDisabled => (gv.dataType # "" /\ gv.currentRepo # <<>>)

\* the text of #repoUrl is empty once trimmed, or extractRepoFromUrl rejects it
Rejected(raw) == Trim(raw) = <<>> \/ extractRepoFromUrl(Trim(raw)) = JsNull

\* C34: validateRepository on an empty or rejected input shows the error
\* popup and leaves currentRepo, the data-type control and the fetch button
\* as they are; currentRepo changes only in validateRepository, to the repo
\* extractRepoFromUrl accepted.
C34_RejectedInputKeepsState ==
    [][/\ (gv'.event = "validate" /\ Rejected(gv'.repoUrl)) =>
            /\ gv'.modal
            /\ gv'.errorMessage \in {EnterUrlMsg, InvalidUrlMsg}
            /\ gv'.currentRepo = gv.currentRepo
            /\ gv'.dataType = gv.dataType
            /\ gv'.dataTypeDisabled = gv.dataTypeDisabled
            /\ gv'.fetchDisabled = gv.fetchDisabled
       /\ gv'.currentRepo # gv.currentRepo =>
            /\ gv'.event = "validate"
            /\ ~Rejected(gv'.repoUrl)
            /\ JsStr(gv'.currentRepo) = extractRepoFromUrl(Trim(gv'.repoUrl))
            /\ IsToken(gv'.currentRepo)]_vars

C34_Witness ==
    /\ gv.event = "validate"
    /\ gv.repoUrl = <<"a", "!", "/", "b">>
    /\ gv.modal
    /\ gv.errorMessage = InvalidUrlMsg
    /\ gv.currentRepo = <<"a", "/", "b">>
    /\ gv.dataType = "prs"
    /\ ~gv.dataTypeDisabled
    /\ ~gv.fetchDisabled

---------------------------------------------------------------------------
(* Claims about the multi-select viewer, under SpecMs *)

\* C35: when no call of loadList awaits its response, #list holds no item
\* twice, also after calls that overlapped.
C35_EachItemOnce ==
    (\A c \in Loads : ms.loads[c].pc # "fetching") =>
        \A i, j \in 1..Len(ms.list) : ms.list[i] = ms.list[j] => i = j

---------------------------------------------------------------------------
(* Claims about the direct-API viewer, under SpecDv *)

\* the calls of handleLoad made so far, and the last of them
DvStarted == {c \in HandleLoads : dv.loads[c].pc # "new"}
DvLast == CHOOSE c \in DvStarted : \A o \in DvStarted : o <= c

\* C36: when no call of handleLoad awaits its response and the last call
\* made - the one for the repo and type now in the inputs - got its list,
\* listSelect shows a list fetched for that repo and type, whatever the order
\* of the responses.
C36_ListOfSelection ==
    (/\ DvStarted # {}
     /\ \A c \in HandleLoads : dv.loads[c].pc # "fetching"
     /\ dv.loads[DvLast].ok)
    => \E c \in DvStarted :
          /\ dv.loads[c].ok
          /\ dv.loads[c].key = dv.loads[DvLast].key
          /\ dv.listSelect = renderList(dv.loads[c].data.v)

---------------------------------------------------------------------------
(* Claims about the card viewer, under SpecCards *)

\* t is max(1, ceil(n / size)): the least number of pages of this size, at
\* least one, that hold n records
IsTotalPages(t, n, size) ==
    /\ t >= 1
    /\ t * size >= n
    /\ t > 1 => (t - 1) * size < n

\* C37: 1 <= page <= totalPages with totalPages = max(1, ceil(records /
\* pageSize)), the pair the page indicator shows; Previous on page 1 and Next
\* on the last page leave the page as it is, and a change of the page size
\* sets the page to 1.
C37_PageInRange ==
    [][/\ cv'.page >= 1
       /\ IsTotalPages(cv'.pageInfo[2], Len(cv'.records), cv'.pageSize)
       /\ cv'.page <= cv'.pageInfo[2]
       /\ cv'.pageInfo[1] = cv'.page
       /\ (cv'.event = "prev" /\ cv.page = 1) => cv'.page = 1
       /\ (cv'.event = "next" /\ IsTotalPages(cv.page, Len(cv.records), cv.pageSize)) =>
             cv'.page = cv.page
       /\ (cv'.event = "size" /\ cv'.pageSize # cv.pageSize) => cv'.page = 1]_vars

C37_Witness ==
    /\ cv.event = "next"
    /\ Len(cv.records) = MaxRecords
    /\ cv.pageSize = 10
    /\ cv.page = 6
    /\ cv.pageInfo = <<6, 6>>
    /\ cv.impl = "app.js"

\* the indices of the records page p holds: (p-1)*size .. min(p*size, n) - 1
IndicesOfPage(p, n, size) == {k \in 0..(n - 1) : (p - 1) * size <= k /\ k < p * size}

\* the indices of the records that page p shows, as render slices them
ShownOnPage(p) ==
    LET sl == PageSlice(cv.records, p, cv.pageSize)
    IN  {sl.start + i - 1 : i \in 1..Len(sl.recs)}

\* C38: the cards shown are the records of the page, in dataset order, each
\* with its own index, at most pageSize of them; over the pages, every record
\* is on exactly one; and the click on a card opens the detail view of the
\* record of that card.
C38_PagesPartition ==
    LET n == Len(cv.records)
        first == (cv.page - 1) * cv.pageSize
    IN  /\ Len(cv.cards) <= cv.pageSize
        /\ {cv.cards[i].index : i \in 1..Len(cv.cards)} = IndicesOfPage(cv.page, n, cv.pageSize)
        /\ \A i \in 1..Len(cv.cards) :
              /\ cv.cards[i].index = first + i - 1
              /\ cv.cards[i].rec = cv.records[first + i]
        /\ \A k \in 0..(n - 1) :
              \E p \in 1..TotalPages(cv) :
                 /\ k \in ShownOnPage(p)
                 /\ \A q \in 1..TotalPages(cv) : k \in ShownOnPage(q) => q = p
        /\ cv.event = "click" =>
              /\ cv.modal.open
              /\ cv.modal.record = cv.records[first + cv.clicked]

C38_Witness ==
    /\ cv.event = "click"
    /\ cv.impl = "part_001"
    /\ Len(cv.records) = 25
    /\ cv.pageSize = 10
    /\ cv.page = 3
    /\ Len(cv.cards) = 5
    /\ cv.clicked = 5
    /\ cv.modal.record = [instance_id |-> 1024]

===========================================================================
